---- MODULE Spec2Model ----
(***************************************************************************)
(* Pattern-detection and scoring engine of the moomoo-like backend:        *)
(*   - _to_bars, detect_boxes      (app/backend/box_detector.py)           *)
(*   - _build_ma_series, _count_streak, _detect_body_box,                  *)
(*     compute_stage_score         (app/backend/ingest_txt.py)             *)
(*   - _score_weekly_candidate, _score_monthly_candidate,                  *)
(*     _build_weekly_ranking, _build_monthly_ranking, _detect_body_box,    *)
(*     _normalize_daily_rows, _normalize_monthly_rows, _build_box_metrics, *)
(*     _ensure_rank_cache_state, _load_rank_config (app/backend/main.py)   *)
(*                                                                         *)
(* Prices are integer ticks; a float comparison of the source is done by   *)
(* cross-multiplication (a / b > c / d  <=>  a * d > c * b for positive    *)
(* b, d).  Percentages are rationals num / den.  The running sum of        *)
(* _build_ma_series is a float: it is rounded to MantissaBits significant  *)
(* bits after every addition and subtraction.                              *)
(*                                                                         *)
(* The specifications of the module:                                       *)
(*   Spec         one run of detect_boxes, one loop step per action        *)
(*   NormSpec     one run of _to_bars, one row per action                  *)
(*   StageSpec    compute_stage_score on a growing daily series            *)
(*   StreakSpec   one run of _count_streak, one bar per action             *)
(*   MaSpec       one run of _build_ma_series, one value per action        *)
(*   ScoreSpec    one run of a rank scorer, one signal block per action    *)
(*   RankSpec     a ranking builder called once or twice, one code per     *)
(*                action                                                   *)
(*   RepeatSpec   detect_boxes, compute_stage_score or a scorer called     *)
(*                twice on the same arguments                              *)
(*   RescueSpec   one run of detect_boxes on series with early excursions  *)
(*   BodySpec     one run of main.py's _detect_body_box, one window        *)
(*                length per action                                        *)
(*   BothSpec     _detect_body_box next to detect_boxes on candle bodies   *)
(*   DateSpec     one run of _normalize_daily_rows or                      *)
(*                _normalize_monthly_rows, one row per action              *)
(*   GrowSpec     detect_boxes run again after every appended bar          *)
(*   MetricsSpec  the same with the default parameters, as                 *)
(*                _build_box_metrics calls it                              *)
(*   CacheSpec    ranking requests on two worker threads while the         *)
(*                database and the rank config are replaced                *)
(***************************************************************************)
EXTENDS Integers, Sequences, FiniteSets, TLC

VARIABLES
    \* ---- detect_boxes ----
    rows,         \* the input rows
    params,       \* keyword parameters of detect_boxes
    bars,         \* _to_bars(rows)
    pc,           \* position in detect_boxes
    index,        \* scan pointer
    start, end,   \* current candidate window
    upper, lower, \* current bounds
    rescue_up, rescue_down,
    cursor,       \* loop variable of the extension loop
    boxes,        \* the result list
    examined,     \* history: examined[i] = times index i was rejected as a candidate start
    \* ---- compute_stage_score ----
    daily,        \* rows of daily_df, sorted by date: [c, v]
    monthly,      \* rows of monthly_df, sorted by month: (month, o, h, l, c)
    appended,     \* history: daily rows added since the frame was loaded
    result,       \* the returned tuple, NoResult before the call
    \* ---- _count_streak ----
    s_values, s_averages, s_direction,
    s_pos,        \* number of zip pairs consumed
    s_state,      \* [count, opposite, has_values]
    s_prev,       \* history: s_state before the last consumed pair
    s_returned,   \* the function has returned
    s_result,     \* its return value
    \* ---- _build_ma_series ----
    m_values, m_period,
    m_index,      \* loop variable of the enumerate loop
    m_total,      \* the running sum (a float)
    m_result,     \* the list being built
    m_outcome,    \* "running", "returned" or "raised"
    \* ---- _to_bars ----
    n_rows,       \* the rows given to _to_bars
    n_pos,        \* number of rows consumed by the for loop
    n_bars,       \* the list being built
    n_outcome,    \* "running", "returned" or "raised"
    \* ---- _score_weekly_candidate, _score_monthly_candidate ----
    c_kind,       \* "weekly" or "monthly": which scorer is called
    c_input,      \* what the candidate's rows make of the signal conditions
    c_config,     \* the rank config
    c_pos,        \* number of signal blocks evaluated
    c_score,      \* up_score / down_score / score, by axis
    c_reasons,    \* up_reasons / down_reasons / reasons, by axis: (weight, label) pairs
    c_badges,     \* up_badges / down_badges, by axis
    c_out,        \* the return value, Running before the return
    \* ---- _build_weekly_ranking, _build_monthly_ranking ----
    k_kind,       \* "weekly" or "monthly": which builder is called
    k_codes,      \* the universe code list
    k_data,       \* by code: what the rows of the code make of the signal conditions
    k_config,     \* the rank config
    k_limit,      \* the limit argument
    k_pos,        \* number of codes the for loop has consumed
    k_items,      \* up_items, down_items / items, by axis
    k_skipped,    \* the skipped list
    k_cache,      \* _rank_cache[kind][cache_key], None when the key is absent
    k_calls,      \* number of calls of the builder with these arguments
    k_out,        \* [state, result]
    \* ---- a caller that runs one function twice on the same arguments ----
    r_fn,         \* the function: "detect_boxes", "compute_stage_score" or "scorer"
    r_calls,      \* number of calls made
    r_input,      \* the arguments as they were before the first call
    r_first,      \* the value the first call returned, None until it has
    \* ---- _detect_body_box (main.py) ----
    b_rows,       \* the monthly rows
    b_th,         \* the thresholds of the rank config
    b_bars,       \* the valid bars, sorted by time once the loop starts
    b_length,     \* loop variable: the window length being tried
    b_out,        \* [state, box]
    \* ---- _normalize_daily_rows, _normalize_monthly_rows ----
    d_kind,       \* "daily" or "monthly": which normalizer is called
    d_rows,       \* the rows argument
    d_as_of,      \* the as_of / as_of_month argument, None when absent
    d_pos,        \* number of rows the for loop has consumed
    d_by,         \* the dict by_date / by_month
    d_out,        \* [state, rows]
    \* ---- a monthly series that grows: detect_boxes, _build_box_metrics ----
    g_mode,       \* "growing" while bars are appended to rows, else "idle"
    g_prev,       \* [n, boxes, state] of the run before the last append, None before it
    \* ---- the rank cache and the files it follows ----
    db_file,            \* stocks.duckdb: [mtime, version]
    config_file,        \* the rank config file: [mtime, version]
    rank_config_cache,  \* _rank_config_cache: [mtime, config]
    rank_cache,         \* _rank_cache: [mtime, config_mtime, weekly, monthly]
    workers             \* by worker thread: the ranking request it is serving

boxVars    == <<rows, params, bars, pc, index, start, end, upper, lower,
                rescue_up, rescue_down, cursor, boxes, examined>>
stageVars  == <<daily, monthly, appended, result>>
streakVars == <<s_values, s_averages, s_direction, s_pos, s_state, s_prev,
                s_returned, s_result>>
maVars     == <<m_values, m_period, m_index, m_total, m_result, m_outcome>>
normVars   == <<n_rows, n_pos, n_bars, n_outcome>>
scoreVars  == <<c_kind, c_input, c_config, c_pos, c_score, c_reasons, c_badges, c_out>>
rankVars   == <<k_kind, k_codes, k_data, k_config, k_limit, k_pos, k_items, k_skipped,
                k_cache, k_calls, k_out>>
repeatVars == <<r_fn, r_calls, r_input, r_first>>
bodyVars   == <<b_rows, b_th, b_bars, b_length, b_out>>
dateVars   == <<d_kind, d_rows, d_as_of, d_pos, d_by, d_out>>
growVars   == <<g_mode, g_prev>>
cacheVars  == <<db_file, config_file, rank_config_cache, rank_cache, workers>>
vars       == <<boxVars, stageVars, streakVars, maVars, normVars, scoreVars, rankVars,
                repeatVars, bodyVars, dateVars, growVars, cacheVars>>

\* What the steps of one function leave alone: the state of the other functions.
nonBoxVars    == <<stageVars, streakVars, maVars, normVars, scoreVars, rankVars,
                  repeatVars, bodyVars, dateVars, growVars, cacheVars>>
nonStageVars  == <<boxVars, streakVars, maVars, normVars, scoreVars, rankVars,
                  repeatVars, bodyVars, dateVars, growVars, cacheVars>>
nonStreakVars == <<boxVars, stageVars, maVars, normVars, scoreVars, rankVars,
                  repeatVars, bodyVars, dateVars, growVars, cacheVars>>
nonMaVars     == <<boxVars, stageVars, streakVars, normVars, scoreVars, rankVars,
                  repeatVars, bodyVars, dateVars, growVars, cacheVars>>
nonNormVars   == <<boxVars, stageVars, streakVars, maVars, scoreVars, rankVars,
                  repeatVars, bodyVars, dateVars, growVars, cacheVars>>
nonScoreVars  == <<boxVars, stageVars, streakVars, maVars, normVars, rankVars,
                  repeatVars, bodyVars, dateVars, growVars, cacheVars>>
nonBodyVars   == <<boxVars, stageVars, streakVars, maVars, normVars, scoreVars,
                  rankVars, repeatVars, dateVars, growVars, cacheVars>>
nonRepeatVars == <<boxVars, stageVars, streakVars, maVars, normVars, scoreVars,
                  rankVars, bodyVars, dateVars, growVars, cacheVars>>
nonRankVars   == <<boxVars, stageVars, streakVars, maVars, normVars, scoreVars,
                  repeatVars, bodyVars, dateVars, growVars, cacheVars>>
nonDateVars   == <<boxVars, stageVars, streakVars, maVars, normVars, scoreVars,
                  rankVars, repeatVars, bodyVars, growVars, cacheVars>>
nonGrowVars   == <<boxVars, stageVars, streakVars, maVars, normVars, scoreVars,
                  rankVars, repeatVars, bodyVars, dateVars, cacheVars>>
nonCacheVars  == <<boxVars, stageVars, streakVars, maVars, normVars, scoreVars,
                  rankVars, repeatVars, bodyVars, dateVars, growVars>>

\* Python's None for an optional number is the empty tuple, a number x is <<x>>.
None == <<>>
Some(x) == <<x>>
Val(o) == o[1]
\* breakout = None in a box
NoBreakout == "None"

Abs(x) == IF x < 0 THEN 0 - x ELSE x
Max2(a, b) == IF a >= b THEN a ELSE b
Min2(a, b) == IF a <= b THEN a ELSE b

RECURSIVE SeqMax(_), SeqMin(_), SeqSum(_)
SeqMax(s) == IF Len(s) = 1 THEN s[1] ELSE Max2(s[1], SeqMax(Tail(s)))
SeqMin(s) == IF Len(s) = 1 THEN s[1] ELSE Min2(s[1], SeqMin(Tail(s)))
SeqSum(s) == IF s = <<>> THEN 0 ELSE s[1] + SeqSum(Tail(s))

(***************************************************************************)
(*                       box_detector.py                                   *)
(***************************************************************************)

\* Bounds of the detect_boxes inputs.
MaxRows == 4

\* Price ticks used by the rows.
BarShapes ==
    { [open |-> 100, high |-> 100, low |-> 100, close |-> 100],
      [open |-> 100, high |-> 105, low |->  95, close |->  95],
      [open |-> 105, high |-> 120, low |-> 105, close |-> 120],
      [open |-> 100, high |-> 100, low |->  80, close |->  80],
      [open |-> 100, high |-> 118, low |-> 100, close |-> 101] }

\* A row (time, open, high, low, close) of the price table; missing names the
\* fields that are None, text the fields that hold a non-numeric string, len is
\* the number of fields of the tuple.
Row(t, shape) ==
    [time |-> t, open |-> shape.open, high |-> shape.high,
     low |-> shape.low, close |-> shape.close, missing |-> {}, text |-> {}, len |-> 5]

\* Keyword parameters: the defaults of detect_boxes and variations of them.
\* max_range_pct = range_num / range_den, breakout_buffer = buf_num / buf_den.
DefaultParams ==
    [min_bars |-> 3, max_bars |-> 24, range_num |-> 18, range_den |-> 100,
     rescue_bars |-> 2, rescue_hits_per_side |-> 1, buf_num |-> 5, buf_den |-> 1000]

ParamSets ==
    { DefaultParams,
      [DefaultParams EXCEPT !.min_bars = 2],
      [DefaultParams EXCEPT !.min_bars = 1],
      [DefaultParams EXCEPT !.min_bars = 1, !.max_bars = 2],
      [DefaultParams EXCEPT !.min_bars = 2, !.rescue_bars = 3, !.rescue_hits_per_side = 2],
      [DefaultParams EXCEPT !.min_bars = 1, !.rescue_bars = 1, !.range_num = 5],
      [DefaultParams EXCEPT !.min_bars = 2, !.max_bars = 2, !.rescue_hits_per_side = 0] }

\* _to_bars: a row converts when it is long enough and time, high, low, close are given.
Convertible(row) ==
    /\ row.len >= 5
    /\ row.missing \cap {"time", "high", "low", "close"} = {}

\* lines 24-32: int(time) and float(open_), float(high), float(low), float(close)
\* raise TypeError on None and ValueError on a non-numeric string.
ConversionRaises(row) ==
    /\ Convertible(row)
    /\ (row.text # {} \/ "open" \in row.missing)

\* Position of s[i] after a stable sort by time: the elements with a smaller time, and
\* those with the same time that come earlier, precede it.
RankByTime(s, i) ==
    1 + Cardinality({ j \in 1 .. Len(s) :
                        \/ s[j].time < s[i].time
                        \/ s[j].time = s[i].time /\ j < i })

SortByTime(s) ==
    [k \in 1 .. Len(s) |-> s[CHOOSE i \in 1 .. Len(s) : RankByTime(s, i) = k]]

\* lines 16-34 when no conversion raises; list.sort(key=time) is stable.
ToBars(rs) == SortByTime(SelectSeq(rs, Convertible))

\* lines 18-32: the conversion of some row raises, and _to_bars with it.
ToBarsRaises(rs) == \E k \in 1 .. Len(rs) : ConversionRaises(rs[k])

Highs(bs, a, b) == [k \in 1 .. (b - a + 1) |-> bs[a + k - 1].high]
Lows(bs, a, b)  == [k \in 1 .. (b - a + 1) |-> bs[a + k - 1].low]

\* (upper - lower) / max(abs(lower), 1e-9) > max_range_pct.
\* Prices are whole ticks, so abs(lower) >= 1 > 1e-9 unless lower = 0; with lower = 0
\* the quotient is (upper - lower) * 1e9, above any max_range_pct used here exactly
\* when upper - lower > 0.
RangeExceeded(up, lo, p) ==
    IF lo = 0 THEN up - lo > 0 /\ p.range_num >= 0
    ELSE (up - lo) * p.range_den > p.range_num * Abs(lo)

\* close >= upper * (1 + breakout_buffer)
BreaksUp(close, up, p) == close * p.buf_den >= up * (p.buf_den + p.buf_num)
\* close <= lower * (1 - breakout_buffer)
BreaksDown(close, lo, p) == close * p.buf_den <= lo * (p.buf_den - p.buf_num)

\* The breakout loop of lines 98-105 from 0-based cursor c on.
RECURSIVE BreakoutScan(_, _, _, _, _)
BreakoutScan(bs, c, up, lo, p) ==
    IF c >= Len(bs) THEN NoBreakout
    ELSE IF BreaksUp(bs[c + 1].close, up, p) THEN "up"
    ELSE IF BreaksDown(bs[c + 1].close, lo, p) THEN "down"
    ELSE BreakoutScan(bs, c + 1, up, lo, p)

\* A scan that starts one bar late.
BreakoutFromSkipping(bs, e, up, lo, p) == BreakoutScan(bs, e + 2, up, lo, p)

\* lines 97-105: for cursor in range(end + 1, last)
BreakoutFrom(bs, e, up, lo, p) == BreakoutScan(bs, e + 1, up, lo, p)

last == Len(bars)

\* Indices are 0-based as in the source; bars[i + 1] is the source's bars[i].
BarAt(i) == bars[i + 1]

BoxInit ==
    /\ \E n \in 0 .. MaxRows : \E shapes \in [1 .. n -> BarShapes] :
          rows = [k \in 1 .. n |-> Row(k, shapes[k])]
    /\ params \in ParamSets
    /\ bars = <<>>
    /\ pc = "call"
    /\ index = 0 /\ start = 0 /\ end = 0
    /\ upper = 0 /\ lower = 0
    /\ rescue_up = 0 /\ rescue_down = 0
    /\ cursor = 0
    /\ boxes = <<>>
    /\ examined = [i \in 0 .. MaxRows |-> 0]

\* No call of compute_stage_score yet.
NoResult ==
    [stage |-> "", score |-> None, status |-> "NOT_CALLED",
     missing_reasons |-> <<>>, breakdown |-> <<>>]

\* compute_stage_score is not used.
IdleResult == [NoResult EXCEPT !.status = "IDLE"]

StageIdle ==
    /\ daily = <<>> /\ monthly = <<>> /\ appended = 0 /\ result = IdleResult

BoxIdle ==
    /\ rows = <<>> /\ params = DefaultParams /\ bars = <<>> /\ pc = "idle"
    /\ index = 0 /\ start = 0 /\ end = 0 /\ upper = 0 /\ lower = 0
    /\ rescue_up = 0 /\ rescue_down = 0 /\ cursor = 0 /\ boxes = <<>>
    /\ examined = [i \in 0 .. MaxRows |-> 0]

CacheIdle ==
    /\ db_file = <<>> /\ config_file = <<>> /\ rank_config_cache = <<>>
    /\ rank_cache = <<>> /\ workers = <<>>

GrowIdle ==
    /\ g_mode = "idle" /\ g_prev = <<>>

DateIdle ==
    /\ d_kind = "idle" /\ d_rows = <<>> /\ d_as_of = <<>> /\ d_pos = 0
    /\ d_by = <<>> /\ d_out = [state |-> "idle", rows |-> <<>>]

BodyIdle ==
    /\ b_rows = <<>> /\ b_th = <<>> /\ b_bars = <<>> /\ b_length = 0
    /\ b_out = [state |-> "idle", box |-> <<>>]

RepeatIdle ==
    /\ r_fn = "none" /\ r_calls = 0 /\ r_input = <<>> /\ r_first = <<>>

RankIdle ==
    /\ k_kind = "idle" /\ k_codes = <<>> /\ k_data = <<>> /\ k_config = <<>> /\ k_limit = 0
    /\ k_pos = 0 /\ k_items = <<>> /\ k_skipped = <<>> /\ k_cache = <<>> /\ k_calls = 0
    /\ k_out = <<>>

ScoreIdle ==
    /\ c_kind = "idle" /\ c_input = <<>> /\ c_config = <<>> /\ c_pos = 0
    /\ c_score = <<>> /\ c_reasons = <<>> /\ c_badges = <<>>
    /\ c_out = [state |-> "idle", skip |-> "none", items |-> <<>>]

NormIdle ==
    /\ n_rows = <<>> /\ n_pos = 0 /\ n_bars = <<>> /\ n_outcome = "idle"

MaIdle ==
    /\ m_values = <<>> /\ m_period = 1 /\ m_index = 0 /\ m_total = 0
    /\ m_result = <<>> /\ m_outcome = "idle"

StreakIdle ==
    /\ s_values = <<>> /\ s_averages = <<>> /\ s_direction = "up"
    /\ s_pos = 0 /\ s_state = [count |-> 0, opposite |-> 0, has_values |-> FALSE]
    /\ s_prev = s_state
    /\ s_returned = FALSE /\ s_result = None

\* A result list that every call shares (a list made once, not once per call).
SharedBoxes(left) == left

\* lines 49, 51: "return []" and "boxes = []" make a new list in every call,
\* whatever an earlier call left
NewBoxes(left) == <<>>

\* lines 47-53: normalise, return [] when there are fewer than min_bars bars.
Normalize ==
    /\ pc = "call"
    /\ bars' = IF ToBarsRaises(rows) THEN <<>> ELSE ToBars(rows)
    /\ boxes' = NewBoxes(boxes)
    /\ index' = 0
    /\ pc' = IF ToBarsRaises(rows) THEN "raised"
             ELSE IF Len(bars') < params.min_bars THEN "done" ELSE "scan"
    /\ UNCHANGED <<rows, params, start, end, upper, lower, rescue_up, rescue_down,
                   cursor, examined>>
    /\ UNCHANGED nonBoxVars

\* The candidate window of lines 56-59 at the current scan pointer.
CandEnd == index + params.min_bars - 1
CandUpper == SeqMax(Highs(bars, index + 1, CandEnd + 1))
CandLower == SeqMin(Lows(bars, index + 1, CandEnd + 1))

\* line 55: the while condition fails.
ScanExit ==
    /\ pc = "scan"
    /\ ~(index <= last - params.min_bars)
    /\ pc' = "done"
    /\ UNCHANGED <<rows, params, bars, index, start, end, upper, lower,
                   rescue_up, rescue_down, cursor, boxes, examined>>
    /\ UNCHANGED nonBoxVars

\* A scan that skips a candidate start after a rejection.
AfterRejectSkipping(i) == i + 2

\* The scan pointer after a rejected candidate (line 62).
AfterReject(i) == i + 1

\* lines 56-63: the first min_bars bars are too wide; advance by one.
Reject ==
    /\ pc = "scan"
    /\ index <= last - params.min_bars
    /\ RangeExceeded(CandUpper, CandLower, params)
    /\ start' = index
    /\ end' = CandEnd
    /\ upper' = CandUpper
    /\ lower' = CandLower
    /\ index' = AfterReject(index)
    /\ examined' = [examined EXCEPT ![index] = @ + 1]
    /\ UNCHANGED <<rows, params, bars, pc, rescue_up, rescue_down, cursor, boxes>>
    /\ UNCHANGED nonBoxVars

\* The end of the initial window (line 57).
InitialEnd(s, p) == s + p.min_bars - 1

\* lines 56-66: the first min_bars bars pass the range test; start extending.
OpenWindow ==
    /\ pc = "scan"
    /\ index <= last - params.min_bars
    /\ ~RangeExceeded(CandUpper, CandLower, params)
    /\ start' = index
    /\ end' = InitialEnd(index, params)
    /\ upper' = CandUpper
    /\ lower' = CandLower
    /\ rescue_up' = 0
    /\ rescue_down' = 0
    /\ cursor' = end' + 1
    /\ pc' = "extend"
    /\ UNCHANGED <<rows, params, bars, index, boxes, examined>>
    /\ UNCHANGED nonBoxVars

\* An extension loop that stops one bar before the end of the series.
ExtendLimitBeforeLast == Min2(last - 1, start + params.max_bars)

\* line 68: range(end + 1, min(last, start + max_bars))
ExtendLimit == Min2(last, start + params.max_bars)

out_up   == BarAt(cursor).high > upper
out_down == BarAt(cursor).low < lower

RescueUp   == out_up /\ rescue_up < params.rescue_hits_per_side
RescueDown == ~RescueUp /\ out_down /\ rescue_down < params.rescue_hits_per_side

\* A refusal that measures the offset of the bar from the end of the window.
RefusedByWindowEnd ==
    /\ out_up \/ out_down
    /\ \/ ~(cursor - end <= params.rescue_bars)
       \/ ~RescueUp /\ ~RescueDown

\* lines 72-83: the bar is out of range and is not rescued: break, bounds untouched.
Refused ==
    /\ out_up \/ out_down
    /\ \/ ~(cursor - start <= params.rescue_bars)
       \/ ~RescueUp /\ ~RescueDown

\* Bounds after lines 72-86 for a bar that is not refused.
NewUpper ==
    IF out_up \/ out_down
    THEN (IF RescueUp THEN Max2(upper, BarAt(cursor).high) ELSE upper)
    ELSE Max2(upper, BarAt(cursor).high)
NewLower ==
    IF out_up \/ out_down
    THEN (IF RescueDown THEN Min2(lower, BarAt(cursor).low) ELSE lower)
    ELSE Min2(lower, BarAt(cursor).low)

\* line 68: the for loop is exhausted.
ExtendDone ==
    /\ pc = "extend"
    /\ cursor >= ExtendLimit
    /\ pc' = "close"
    /\ UNCHANGED <<rows, params, bars, index, start, end, upper, lower,
                   rescue_up, rescue_down, cursor, boxes, examined>>
    /\ UNCHANGED nonBoxVars

\* lines 80-83: break on an out-of-range bar that cannot be rescued.
ExtendRefuse ==
    /\ pc = "extend"
    /\ cursor < ExtendLimit
    /\ Refused
    /\ pc' = "close"
    /\ UNCHANGED <<rows, params, bars, index, start, end, upper, lower,
                   rescue_up, rescue_down, cursor, boxes, examined>>
    /\ UNCHANGED nonBoxVars

\* lines 69-91 for a bar that is in range or rescued: the bounds and the rescue
\* counters are updated first, then the range is checked; when the check fails the
\* loop breaks with the bounds already updated and end left alone.
ExtendBar ==
    /\ pc = "extend"
    /\ cursor < ExtendLimit
    /\ ~Refused
    /\ upper' = NewUpper
    /\ lower' = NewLower
    /\ rescue_up' = IF (out_up \/ out_down) /\ RescueUp THEN rescue_up + 1 ELSE rescue_up
    /\ rescue_down' = IF (out_up \/ out_down) /\ RescueDown THEN rescue_down + 1 ELSE rescue_down
    /\ IF RangeExceeded(NewUpper, NewLower, params)
       THEN /\ pc' = "close"
            /\ UNCHANGED <<end, cursor>>
       ELSE /\ end' = cursor
            /\ cursor' = cursor + 1
            /\ pc' = "extend"
    /\ UNCHANGED <<rows, params, bars, index, start, boxes, examined>>
    /\ UNCHANGED nonBoxVars

\* A scan that resumes on the last bar of the box.
AfterBoxOverlapping(e) == e

\* The scan pointer after an emitted box (line 118).
AfterBox(e) == e + 1

\* A box whose bounds are stored under each other's key.
BoxSwappedBounds ==
    [startIndex |-> start, endIndex |-> end,
     startTime |-> BarAt(start).time, endTime |-> BarAt(end).time,
     lower |-> upper, upper |-> lower,
     breakout |-> BreakoutFrom(bars, end, upper, lower, params)]

\* lines 107-117
Box ==
    [startIndex |-> start, endIndex |-> end,
     startTime |-> BarAt(start).time, endTime |-> BarAt(end).time,
     lower |-> lower, upper |-> upper,
     breakout |-> BreakoutFrom(bars, end, upper, lower, params)]

\* lines 93-118: discard a short window, else find the breakout, emit, resume after end.
Emit ==
    /\ pc = "close"
    /\ IF end - start + 1 < params.min_bars
       THEN /\ index' = index + 1
            /\ UNCHANGED boxes
       ELSE /\ boxes' = Append(boxes, Box)
            /\ index' = AfterBox(end)
    /\ pc' = "scan"
    /\ UNCHANGED <<rows, params, bars, start, end, upper, lower,
                   rescue_up, rescue_down, cursor, examined>>
    /\ UNCHANGED nonBoxVars

Next ==
    \/ Normalize
    \/ ScanExit
    \/ Reject
    \/ OpenWindow
    \/ ExtendDone
    \/ ExtendRefuse
    \/ ExtendBar
    \/ Emit

Init ==
    CacheIdle /\ GrowIdle /\ DateIdle /\ BodyIdle /\ RepeatIdle /\ RankIdle
    /\ ScoreIdle /\ BoxInit /\ StageIdle /\ StreakIdle /\ MaIdle /\ NormIdle
Spec == Init /\ [][Next]_vars

(***************************************************************************)
(*                    box_detector.py: _to_bars                            *)
(***************************************************************************)

\* Bound on the number of rows given to _to_bars on its own.
MaxNormRows == 3

\* Rows as the price table can hold them: well-formed rows with times that repeat
\* and arrive out of order, and rows with a defect.
GoodRows == { Row(t, shape) : t \in {1, 2},
              shape \in { [open |-> 100, high |-> 100, low |-> 100, close |-> 100],
                          [open |-> 105, high |-> 120, low |-> 105, close |-> 120] } }
FlatRow(t) == Row(t, [open |-> 100, high |-> 100, low |-> 100, close |-> 100])
DefectiveRows ==
    UNION { { [FlatRow(t) EXCEPT !.len = 4],
              [FlatRow(t) EXCEPT !.missing = {"close"}],
              [FlatRow(t) EXCEPT !.missing = {"open"}],
              [FlatRow(t) EXCEPT !.text = {"close"}] } : t \in {1, 2} }

NormInit ==
    /\ \E n \in 0 .. MaxNormRows : n_rows \in [1 .. n -> GoodRows \cup DefectiveRows]
    /\ n_pos = 0
    /\ n_bars = <<>>
    /\ n_outcome = "running"

\* lines 19-23: the row is skipped
NormSkip ==
    /\ n_outcome = "running"
    /\ n_pos < Len(n_rows)
    /\ ~Convertible(n_rows[n_pos + 1])
    /\ n_pos' = n_pos + 1
    /\ UNCHANGED <<n_rows, n_bars, n_outcome>>
    /\ UNCHANGED nonNormVars

\* lines 24-32: the row becomes a Bar
NormAppend ==
    /\ n_outcome = "running"
    /\ n_pos < Len(n_rows)
    /\ Convertible(n_rows[n_pos + 1])
    /\ ~ConversionRaises(n_rows[n_pos + 1])
    /\ n_bars' = Append(n_bars, n_rows[n_pos + 1])
    /\ n_pos' = n_pos + 1
    /\ UNCHANGED <<n_rows, n_outcome>>
    /\ UNCHANGED nonNormVars

\* lines 24-32: int() or float() raises, the exception leaves _to_bars and detect_boxes
NormRaise ==
    /\ n_outcome = "running"
    /\ n_pos < Len(n_rows)
    /\ ConversionRaises(n_rows[n_pos + 1])
    /\ n_outcome' = "raised"
    /\ UNCHANGED <<n_rows, n_pos, n_bars>>
    /\ UNCHANGED nonNormVars

\* lines 33-34: sort and return
NormSort ==
    /\ n_outcome = "running"
    /\ n_pos >= Len(n_rows)
    /\ n_bars' = SortByTime(n_bars)
    /\ n_outcome' = "returned"
    /\ UNCHANGED <<n_rows, n_pos>>
    /\ UNCHANGED nonNormVars

NormNext == NormSkip \/ NormAppend \/ NormRaise \/ NormSort
NormSpecInit ==
    CacheIdle /\ GrowIdle /\ DateIdle /\ BodyIdle /\ RepeatIdle /\ RankIdle
    /\ ScoreIdle /\ BoxIdle /\ StageIdle /\ StreakIdle /\ MaIdle /\ NormInit
NormSpec == NormSpecInit /\ [][NormNext]_vars

\* A row that cannot become a Bar: too few fields, or a None or non-numeric
\* time, open, high, low or close.
Malformed(row) == row.len < 5 \/ row.missing # {} \/ row.text # {}

\* C15: rows that cannot be converted to a Bar are silently excluded: the call never
\* fails because of such a row, and it returns the bars of the remaining rows.
C15_MalformedRowsDropped ==
    /\ n_outcome # "raised"
    /\ n_outcome = "returned" =>
          n_bars = SortByTime(SelectSeq(n_rows, LAMBDA row : ~Malformed(row)))

\* C17: after normalization the times of the bars are strictly increasing (hence
\* unique), whatever the order and the times of the input rows.
C17_TimesStrictlyIncreasing ==
    n_outcome = "returned" =>
        \A k \in 1 .. (Len(n_bars) - 1) : n_bars[k].time < n_bars[k + 1].time

(***************************************************************************)
(*                  Properties of detect_boxes                             *)
(***************************************************************************)

BoxIds == 1 .. Len(boxes)

\* C1: the returned boxes never overlap and are in ascending order: every box has
\* 0 <= startIndex <= endIndex < number of normalized bars, and every box after the
\* first starts at or after the previous box's endIndex + 1.
C1_BoxesDisjointAscending ==
    \A k \in BoxIds :
        /\ 0 <= boxes[k].startIndex
        /\ boxes[k].startIndex <= boxes[k].endIndex
        /\ boxes[k].endIndex < Len(bars)
        /\ k > 1 => boxes[k].startIndex >= boxes[k - 1].endIndex + 1

C1_TwoBoxes == pc = "done" /\ Len(boxes) >= 2

\* C2: every returned box has upper >= lower and spans at least min_bars bars.
C2_BoundsOrderedAndLongEnough ==
    \A k \in BoxIds :
        /\ boxes[k].upper >= boxes[k].lower
        /\ boxes[k].endIndex - boxes[k].startIndex + 1 >= params.min_bars

\* a box of exactly min_bars >= 2 bars with distinct bounds, cut short by the next bar
C2_MinimalBox ==
    /\ pc = "done"
    /\ params.min_bars >= 2
    /\ \E k \in BoxIds :
          /\ boxes[k].endIndex - boxes[k].startIndex + 1 = params.min_bars
          /\ boxes[k].upper > boxes[k].lower
          /\ boxes[k].endIndex + 1 < Len(bars)

\* C3: every returned box satisfies (upper - lower) / max(|lower|, 1e-9) <= max_range_pct
\* on its emitted bounds, for all bar sequences and all parameter values.
C3_EmittedRangeWithinLimit ==
    \A k \in BoxIds : ~RangeExceeded(boxes[k].upper, boxes[k].lower, params)

\* The bars after box b whose close meets the upper or the lower breakout condition.
BreakoutHits(b) ==
    { j \in (b.endIndex + 1) .. (Len(bars) - 1) :
        \/ BreaksUp(BarAt(j).close, b.upper, params)
        \/ BreaksDown(BarAt(j).close, b.lower, params) }

\* C4: the breakout of a box is decided by the first bar after endIndex whose close is
\* >= upper * (1 + breakout_buffer) or <= lower * (1 - breakout_buffer): "up" if that bar
\* meets the upper condition, "down" if it meets (only) the lower one, None exactly when
\* no later bar meets either; a close of upper * 1.01 right after the box with buffer
\* 0.005 gives "up".
C4_BreakoutIsFirstHit ==
    \A k \in BoxIds :
        LET b == boxes[k]
            hits == BreakoutHits(b)
        IN  /\ (b.breakout = NoBreakout) <=> (hits = {})
            /\ hits # {} =>
                 LET j == CHOOSE j \in hits : \A i \in hits : j <= i
                 IN  b.breakout =
                        IF BreaksUp(BarAt(j).close, b.upper, params) THEN "up" ELSE "down"
            /\ ( /\ b.endIndex + 1 < Len(bars)
                 /\ BarAt(b.endIndex + 1).close * 100 = b.upper * 101
                 /\ params.buf_num * 1000 = 5 * params.buf_den )
               => b.breakout = "up"

\* Scenario E, and in the same run a box with a breakout down and one with none
C4_ScenarioE ==
    /\ pc = "done"
    /\ \E k \in BoxIds :
          /\ boxes[k].endIndex + 1 < Len(bars)
          /\ BarAt(boxes[k].endIndex + 1).close * 100 = boxes[k].upper * 101
          /\ boxes[k].breakout = "up"

\* C5 (final result): every index 0 .. n - min_bars is inside exactly one returned box
\* and was never rejected, or is inside no box and was rejected exactly once.
ScanCoversOnce ==
    pc = "done" =>
        \A i \in 0 .. (Len(bars) - params.min_bars) :
            LET inside == { k \in BoxIds : boxes[k].startIndex <= i /\ i <= boxes[k].endIndex }
            IN  \/ Cardinality(inside) = 1 /\ examined[i] = 0
                \/ inside = {} /\ examined[i] = 1

\* C5 (steps): the pointer starts at 0, moves only by a rejection (by exactly 1) or by
\* an emitted box (to its endIndex + 1), and never moves backwards.
PointerStep ==
    /\ index' >= index
    /\ (pc = "call" /\ pc' = "scan") => index' = 0
    /\ examined' # examined => index' = index + 1
    /\ Len(boxes') = Len(boxes) + 1 => index' = boxes'[Len(boxes')].endIndex + 1
    /\ index' # index => (examined' # examined) \/ (Len(boxes') = Len(boxes) + 1)
    /\ (examined' # examined) => boxes' = boxes

\* A natural number that every step of a terminating scan decreases: the bars left of
\* the scan pointer first, then the position inside the loop body, then the bars left
\* of the extension cursor.
ScanMeasure ==
    LET n == Len(rows)
        w == n + 4
    IN  CASE pc = "done"    -> 0
          [] pc = "call"    -> (n + 2) * w
          [] pc = "scan"    -> (n + 1 - index) * w + n + 3
          [] pc = "extend"  -> (n + 1 - index) * w + 2 + (n - cursor)
          [] pc = "close"   -> (n + 1 - index) * w + 1

\* C5: detect_boxes scans the sequence exhaustively and exactly once, the pointer moving
\* as in PointerStep, and the scan terminates on every finite input: a run is never
\* stuck before the return, and every step decreases the natural number ScanMeasure.
C5_ExhaustiveScan ==
    /\ []ScanCoversOnce
    /\ [][PointerStep]_vars
    /\ [](ScanMeasure >= 0 /\ (pc # "done" => ENABLED Next))
    /\ [][ScanMeasure' < ScanMeasure]_vars

\* a finished scan with a rejected candidate start followed by a box
C5_RejectedThenBox ==
    /\ pc = "done"
    /\ \E i \in 0 .. MaxRows : \E k \in BoxIds :
          examined[i] = 1 /\ boxes[k].startIndex > i

(***************************************************************************)
(*            detect_boxes on bars that leave the window bounds            *)
(***************************************************************************)

\* Bars around a flat window at 100: one that leaves it on both sides by 2 ticks, one
\* that leaves it on both sides by 5, one that is 3% above it.
RescueShapes ==
    { [open |-> 100, high |-> 100, low |-> 100, close |-> 100],
      [open |-> 100, high |-> 102, low |->  98, close |-> 102],
      [open |-> 100, high |-> 105, low |->  95, close |->  95],
      [open |-> 100, high |-> 103, low |-> 100, close |-> 103] }

RescueParams ==
    { DefaultParams,
      [DefaultParams EXCEPT !.min_bars = 2, !.rescue_bars = 1],
      [DefaultParams EXCEPT !.min_bars = 1],
      [DefaultParams EXCEPT !.min_bars = 2, !.rescue_bars = 3],
      [DefaultParams EXCEPT !.min_bars = 2, !.rescue_bars = 3, !.rescue_hits_per_side = 2],
      [DefaultParams EXCEPT !.min_bars = 1, !.rescue_bars = 1, !.range_num = 5] }

RescueInit ==
    /\ \E n \in 0 .. MaxRows : \E shapes \in [1 .. n -> RescueShapes] :
          rows = [k \in 1 .. n |-> Row(k, shapes[k])]
    /\ params \in RescueParams
    /\ bars = <<>>
    /\ pc = "call"
    /\ index = 0 /\ start = 0 /\ end = 0
    /\ upper = 0 /\ lower = 0
    /\ rescue_up = 0 /\ rescue_down = 0
    /\ cursor = 0
    /\ boxes = <<>>
    /\ examined = [i \in 0 .. MaxRows |-> 0]

RescueSpecInit ==
    CacheIdle /\ GrowIdle /\ DateIdle /\ BodyIdle /\ RepeatIdle /\ RankIdle
    /\ ScoreIdle /\ StageIdle /\ StreakIdle /\ MaIdle /\ NormIdle /\ RescueInit
RescueSpec == RescueSpecInit /\ [][Next]_vars

\* The extension loop is at a bar that leaves the bounds.
AtExcursion == pc = "extend" /\ cursor < ExtendLimit /\ (out_up \/ out_down)

\* Conditions (a), (b), (c) for the bar at the cursor: it is within rescue_bars of the
\* window start, the budget of every side it breaches is not used up, and the range
\* test passes on the bounds widened to include it.
RescueAllowed ==
    /\ cursor - start <= params.rescue_bars
    /\ out_up => rescue_up < params.rescue_hits_per_side
    /\ out_down => rescue_down < params.rescue_hits_per_side
    /\ ~RangeExceeded(Max2(upper, BarAt(cursor).high), Min2(lower, BarAt(cursor).low), params)

\* C23: during extension a bar with high > upper or low < lower is accepted into the
\* window if and only if it is within rescue_bars of the window start, fewer than
\* rescue_hits_per_side rescues were used on the side it breaches, and the range test
\* passes after the widening; an accepted bar above upper moves upper to its high, and
\* no side is rescued more than rescue_hits_per_side times.
C23_RescuedIffEligible ==
    [][ AtExcursion =>
          /\ (end' = cursor) <=> RescueAllowed
          /\ (end' = cursor /\ out_up) => upper' = BarAt(cursor).high
          /\ rescue_up' <= params.rescue_hits_per_side
          /\ rescue_down' <= params.rescue_hits_per_side ]_vars

\* C24: the bounds of every returned box are those of its bars: upper is the maximum
\* high and lower the minimum low over startIndex .. endIndex.
C24_BoundsOfAcceptedBars ==
    \A k \in BoxIds :
        /\ boxes[k].upper = SeqMax(Highs(bars, boxes[k].startIndex + 1, boxes[k].endIndex + 1))
        /\ boxes[k].lower = SeqMin(Lows(bars, boxes[k].startIndex + 1, boxes[k].endIndex + 1))

\* C27: when rescue_bars < min_bars no bar is ever rescued: the rescue counters stay
\* 0, every bar that leaves the bounds during extension ends the window, and the
\* bounds of every returned box are the maximum high and the minimum low of its
\* first min_bars bars.
C27_NoRescueBelowMinBars ==
    params.rescue_bars < params.min_bars =>
        /\ rescue_up = 0 /\ rescue_down = 0
        /\ AtExcursion => Refused
        /\ \A k \in BoxIds :
              LET s == boxes[k].startIndex
              IN  /\ boxes[k].upper = SeqMax(Highs(bars, s + 1, s + params.min_bars))
                  /\ boxes[k].lower = SeqMin(Lows(bars, s + 1, s + params.min_bars))

\* a window of two bars took a third bar in range, met a bar above its upper bound
\* which ended it, and was returned with its first bounds
C27_ExcursionEndsWindow ==
    /\ params.rescue_bars < params.min_bars
    /\ pc = "done" /\ Len(bars) = 4 /\ Len(boxes) >= 1
    /\ boxes[1].startIndex = 0 /\ boxes[1].endIndex = 2
    /\ bars[4].high > boxes[1].upper

(***************************************************************************)
(*              ingest_txt.py: _build_ma_series, _count_streak             *)
(***************************************************************************)

\* An average is the exact fraction num / den (den > 0).
Frac(n, d) == [num |-> n, den |-> d]
Above(value, a) == value * a.den > a.num    \* value > avg
Below(value, a) == value * a.den < a.num    \* value < avg

StreakStart == [count |-> 0, opposite |-> 0, has_values |-> FALSE]

\* A loop body that resets the streak on the first unfavorable bar.
StreakUpdateNoTolerance(st, value, avg, direction) ==
    IF avg = None THEN st
    ELSE LET favorable == IF direction = "up" THEN Above(value, Val(avg)) ELSE Below(value, Val(avg))
             unfavorable == IF direction = "up" THEN Below(value, Val(avg)) ELSE Above(value, Val(avg))
         IN  IF favorable
             THEN [count |-> st.count + 1, opposite |-> 0, has_values |-> TRUE]
             ELSE IF unfavorable
             THEN [count |-> 0, opposite |-> st.opposite + 1, has_values |-> TRUE]
             ELSE [count |-> st.count, opposite |-> 0, has_values |-> TRUE]

\* lines 70-93: one iteration of the loop over zip(values, averages).
StreakUpdate(st, value, avg, direction) ==
    IF avg = None THEN st
    ELSE LET favorable == IF direction = "up" THEN Above(value, Val(avg)) ELSE Below(value, Val(avg))
             unfavorable == IF direction = "up" THEN Below(value, Val(avg)) ELSE Above(value, Val(avg))
         IN  IF favorable
             THEN [count |-> st.count + 1, opposite |-> 0, has_values |-> TRUE]
             ELSE IF unfavorable
             THEN [count |-> IF st.opposite + 1 >= 2 THEN 0 ELSE st.count,
                   opposite |-> st.opposite + 1, has_values |-> TRUE]
             ELSE [count |-> st.count, opposite |-> 0, has_values |-> TRUE]

\* A return that reports the count even when no average was defined.
StreakResultNeverNull(st) == Some(st.count)

\* line 94
StreakResult(st) == IF ~st.has_values THEN None ELSE Some(st.count)

\* zip stops at the shorter of the two lists.
ZipLen(values, averages) == Min2(Len(values), Len(averages))

\* Bounds of the _count_streak inputs.
MaxStreakLen == 4

StreakValues == {1, 2, 3}
StreakAverages == {None, Some(Frac(2, 1))}

StreakInit ==
    /\ \E n \in 0 .. MaxStreakLen :
          /\ s_values \in [1 .. n -> StreakValues]
          /\ s_averages \in [1 .. n -> StreakAverages]
    /\ s_direction \in {"up", "down"}
    /\ s_pos = 0
    /\ s_state = StreakStart
    /\ s_prev = StreakStart
    /\ s_returned = FALSE
    /\ s_result = None

\* lines 70-93: the loop consumes the next pair.
StreakLoop ==
    /\ ~s_returned
    /\ s_pos < ZipLen(s_values, s_averages)
    /\ s_prev' = s_state
    /\ s_state' = StreakUpdate(s_state, s_values[s_pos + 1], s_averages[s_pos + 1], s_direction)
    /\ s_pos' = s_pos + 1
    /\ UNCHANGED <<s_values, s_averages, s_direction, s_returned, s_result>>
    /\ UNCHANGED nonStreakVars

\* line 94: the loop is over.
StreakReturn ==
    /\ ~s_returned
    /\ s_pos >= ZipLen(s_values, s_averages)
    /\ s_returned' = TRUE
    /\ s_result' = StreakResult(s_state)
    /\ UNCHANGED <<s_values, s_averages, s_direction, s_pos, s_state, s_prev>>
    /\ UNCHANGED nonStreakVars

StreakNext == StreakLoop \/ StreakReturn
StreakSpecInit ==
    CacheIdle /\ GrowIdle /\ DateIdle /\ BodyIdle /\ RepeatIdle /\ RankIdle
    /\ ScoreIdle /\ BoxIdle /\ StageIdle /\ MaIdle /\ NormIdle /\ StreakInit
StreakSpec == StreakSpecInit /\ [][StreakNext]_vars

\* The iterations lo .. hi of the loop, in order (split in halves to keep the
\* evaluation shallow).
RECURSIVE StreakFold(_, _, _, _, _, _)
StreakFold(st, values, averages, direction, lo, hi) ==
    IF lo > hi THEN st
    ELSE IF lo = hi THEN StreakUpdate(st, values[lo], averages[lo], direction)
    ELSE LET mid == (lo + hi) \div 2
             half == StreakFold(st, values, averages, direction, lo, mid)
         IN  IF half.count >= 0   \* the first half is computed before the second
             THEN StreakFold(half, values, averages, direction, mid + 1, hi)
             ELSE st

\* lines 66-94: the whole function, as compute_stage_score calls it.
CountStreak(values, averages, direction) ==
    StreakResult(StreakFold(StreakStart, values, averages, direction, 1, ZipLen(values, averages)))

(***************************************************************************)
(*                  Properties of _count_streak                            *)
(***************************************************************************)

\* Pair k has a defined average and its value is strictly on the unfavorable side.
Unfavorable(k) ==
    /\ s_averages[k] # None
    /\ IF s_direction = "up" THEN Below(s_values[k], Val(s_averages[k]))
                              ELSE Above(s_values[k], Val(s_averages[k]))

\* The pairs before k that have a defined average.
DefinedBefore(k) == { j \in 1 .. (k - 1) : s_averages[j] # None }

\* Pair k directly follows an unfavorable pair among the pairs with a defined average.
FollowsUnfavorable(k) ==
    /\ DefinedBefore(k) # {}
    /\ Unfavorable(CHOOSE j \in DefinedBefore(k) : \A i \in DefinedBefore(k) : i <= j)

\* What the loop step that consumes pair s_pos + 1 may do to the count.
StreakStepRule ==
    s_pos' = s_pos + 1 =>
        LET k == s_pos + 1
        IN  /\ (Unfavorable(k) /\ ~FollowsUnfavorable(k)) => s_state'.count = s_state.count
            /\ s_state'.count < s_state.count => (Unfavorable(k) /\ FollowsUnfavorable(k))
            /\ (Unfavorable(k) /\ FollowsUnfavorable(k)) => s_state'.count = 0

\* C10: walking the bars in order, a single unfavorable bar (not directly preceded by an
\* unfavorable bar among the bars with a defined average) never changes the streak
\* count; the count drops to 0 only at the second or a later bar of consecutive
\* unfavorable bars, and every such bar leaves the count at 0.
C10_ResetOnlyBySecondUnfavorable == [][StreakStepRule]_vars

\* favorable, unfavorable, unfavorable: the count survives the first and is reset by the second
C10_ToleratedThenReset ==
    /\ s_pos = 3
    /\ ~Unfavorable(1) /\ s_averages[1] # None
    /\ Unfavorable(2) /\ Unfavorable(3)
    /\ s_prev.count = 1
    /\ s_state.count = 0

\* The pairs the loop walks, and those among them with a defined average.
Pairs == 1 .. ZipLen(s_values, s_averages)
DefinedPairs == { k \in Pairs : s_averages[k] # None }

\* Pair k has a defined average and its value is strictly on the favorable side.
Favorable(k) ==
    /\ s_averages[k] # None
    /\ IF s_direction = "up" THEN Above(s_values[k], Val(s_averages[k]))
                              ELSE Below(s_values[k], Val(s_averages[k]))

\* The last pair of the most recent run of two or more consecutive unfavorable pairs
\* (0 when there is no such run).
EndOfLastUnfavorableRun ==
    LET ends == { k \in Pairs : Unfavorable(k) /\ FollowsUnfavorable(k) }
    IN  IF ends = {} THEN 0 ELSE CHOOSE k \in ends : \A j \in ends : j <= k

\* The values / averages at the pairs with a defined average, in order.
DefinedOnly(s) == SelectSeq([k \in Pairs |-> <<s[k], s_averages[k]>>], LAMBDA pr : pr[2] # None)

\* C11: _count_streak returns null exactly when no position has a defined average;
\* otherwise the result is what the positions with a defined average alone give, and is
\* the number (>= 0) of strictly favorable bars after the most recent run of two or more
\* consecutive unfavorable bars, or since the first defined position without such a run.
C11_StreakResult ==
    s_returned =>
        /\ s_result = None <=> DefinedPairs = {}
        /\ DefinedPairs # {} =>
              /\ Val(s_result) >= 0
              /\ Val(s_result)
                   = Cardinality({ k \in Pairs : Favorable(k) /\ k > EndOfLastUnfavorableRun })
              /\ s_result = CountStreak([k \in 1 .. Len(DefinedOnly(s_values)) |-> DefinedOnly(s_values)[k][1]],
                                        [k \in 1 .. Len(DefinedOnly(s_values)) |-> DefinedOnly(s_values)[k][2]],
                                        s_direction)

\* unfavorable, undefined, unfavorable, favorable: the run is reset across the gap, result 1
C11_ResetAcrossUndefined ==
    /\ s_returned
    /\ Len(s_values) = 4
    /\ Unfavorable(1) /\ s_averages[2] = None /\ Unfavorable(3) /\ Favorable(4)
    /\ s_result = Some(1)

(***************************************************************************)
(*     ingest_txt.py: _build_ma_series, _detect_body_box,                  *)
(*                    compute_stage_score                                  *)
(***************************************************************************)

\* Python floats are binary64: a sum or difference is rounded to the nearest number
\* with 53 significant bits, ties to the even one.  The model keeps MantissaBits
\* significant bits; numbers are counted in units of the smallest step of the inputs,
\* so every integer below FloatExact in magnitude is a float and is kept exactly.
MantissaBits == 20

RECURSIVE Pow2(_)
Pow2(n) == IF n = 0 THEN 1 ELSE 2 * Pow2(n - 1)

FloatExact == Pow2(MantissaBits)

\* The spacing of the floats around magnitude a.
RECURSIVE Quantum(_, _)
Quantum(a, q) == IF a < FloatExact * q THEN q ELSE Quantum(a, 2 * q)

\* Rounding of the exact result x of a float operation.
RoundFloat(x) ==
    LET a == Abs(x)
        q == Quantum(a, 1)
        down == (a \div q) * q
        rest == a - down
        nearest == IF 2 * rest < q THEN down
                   ELSE IF 2 * rest > q THEN down + q
                   ELSE IF (down \div q) % 2 = 0 THEN down ELSE down + q
    IN  IF x < 0 THEN 0 - nearest ELSE nearest

\* lines 55-62: one iteration of the running-sum loop at 0-based index i; the entry
\* total / period is kept as the fraction of the float total and the period.
MaStep(st, values, period, i) ==
    LET added == RoundFloat(st.total + values[i + 1])
        kept == IF i >= period THEN RoundFloat(added - values[i - period + 1]) ELSE added
    IN  [total |-> kept,
         result |-> Append(st.result, IF i >= period - 1 THEN Some(Frac(kept, period)) ELSE None)]

\* The iterations lo .. hi of the loop, in order (split in halves to keep the
\* evaluation shallow).
RECURSIVE MaLoop(_, _, _, _, _)
MaLoop(st, values, period, lo, hi) ==
    IF lo > hi THEN st
    ELSE IF lo = hi THEN MaStep(st, values, period, lo)
    ELSE LET mid == (lo + hi) \div 2
             half == MaLoop(st, values, period, lo, mid)
         IN  IF Len(half.result) >= 0   \* the first half is computed before the second
             THEN MaLoop(half, values, period, mid + 1, hi)
             ELSE st

\* lines 50-63
BuildMaSeries(values, period) ==
    IF period <= 0 THEN [k \in 1 .. Len(values) |-> None]
    ELSE MaLoop([total |-> 0, result |-> <<>>], values, period, 0, Len(values) - 1).result

\* Bound on the length of the series given to _build_ma_series on its own.
MaxMaLen == 3

\* Closes in units of their smallest step: small ones, and ones that use every
\* significant bit (as 0.1 or 100.1 do in binary64).
MaValues == {1, 2, FloatExact - 1}
MaPeriods == (0 - 1) .. MaxMaLen

MaInit ==
    /\ \E n \in 0 .. MaxMaLen : m_values \in [1 .. n -> MaValues]
    /\ m_period \in MaPeriods
    /\ m_index = 0
    /\ m_total = 0
    /\ m_result = <<>>
    /\ m_outcome = "running"

\* lines 51-52: a period that is not positive gives a series of None
MaNonPositive ==
    /\ m_outcome = "running"
    /\ m_period <= 0
    /\ m_result' = [k \in 1 .. Len(m_values) |-> None]
    /\ m_outcome' = "returned"
    /\ UNCHANGED <<m_values, m_period, m_index, m_total>>
    /\ UNCHANGED nonMaVars

\* lines 55-62: one iteration of the loop
MaIterate ==
    /\ m_outcome = "running"
    /\ m_period > 0
    /\ m_index < Len(m_values)
    /\ LET st == MaStep([total |-> m_total, result |-> m_result], m_values, m_period, m_index)
       IN  /\ m_total' = st.total
           /\ m_result' = st.result
    /\ m_index' = m_index + 1
    /\ UNCHANGED <<m_values, m_period, m_outcome>>
    /\ UNCHANGED nonMaVars

\* line 63
MaReturn ==
    /\ m_outcome = "running"
    /\ m_period > 0
    /\ m_index >= Len(m_values)
    /\ m_outcome' = "returned"
    /\ UNCHANGED <<m_values, m_period, m_index, m_total, m_result>>
    /\ UNCHANGED nonMaVars

MaNext == MaNonPositive \/ MaIterate \/ MaReturn
MaSpecInit ==
    CacheIdle /\ GrowIdle /\ DateIdle /\ BodyIdle /\ RepeatIdle /\ RankIdle
    /\ ScoreIdle /\ BoxIdle /\ StageIdle /\ StreakIdle /\ NormIdle /\ MaInit
MaSpec == MaSpecInit /\ [][MaNext]_vars

\* s[-k] of a Python list, None when the list is shorter.
FromEnd(s, k) == IF Len(s) >= k THEN s[Len(s) - k + 1] ELSE None

\* lines 222-231: series[-1] - series[-2] when both are defined (same period).
Slope(series) ==
    IF Len(series) >= 2 /\ series[Len(series)] # None /\ series[Len(series) - 1] # None
    THEN Some(Frac(Val(series[Len(series)]).num - Val(series[Len(series) - 1]).num,
                   Val(series[Len(series)]).den))
    ELSE None

\* a > b for two fractions
FracGt(a, b) == a.num * b.den > b.num * a.den

\* lines 97-100: current / previous - 1
PctChange(current, previous) ==
    IF current = None \/ previous = None THEN None
    ELSE IF Val(previous) = 0 THEN None
    ELSE Some(Frac(Val(current) - Val(previous), Val(previous)))

\* lines 115-122: volumes[-1] / (sum(volumes[-period:]) / period)
ComputeVolumeRatio(volumes, period) ==
    IF Len(volumes) < period THEN None
    ELSE LET total == SeqSum(SubSeq(volumes, Len(volumes) - period + 1, Len(volumes)))
         IN  IF total <= 0 THEN None
             ELSE Some(Frac(volumes[Len(volumes)] * period, total))

\* lines 133-141: a monthly row converts when all five fields are numbers.
BodyConvertible(row) == row.missing = {}

BodyHigh(bar) == Max2(bar.open, bar.close)
BodyLow(bar)  == Min2(bar.open, bar.close)

\* max_range_pct = 0.2 of line 128, in the shape RangeExceeded reads.
BodyBoxParams == [range_num |-> 20, range_den |-> 100]

\* lines 170-174: wild_wick_pct = 0.1
WildBar(bar, up, lo) == bar.high * 10 > up * 11 \/ bar.low * 10 < lo * 9

\* lines 163-183 for one window length.
BodyWindow(bs, length) ==
    LET window == SubSeq(bs, Len(bs) - length + 1, Len(bs))
        up == SeqMax([k \in 1 .. length |-> BodyHigh(window[k])])
        lo == SeqMin([k \in 1 .. length |-> BodyLow(window[k])])
    IN  [fits |-> ~RangeExceeded(up, lo, BodyBoxParams),
         box |-> [start |-> window[1].time, end |-> window[length].time,
                  upper |-> up, lower |-> lo, months |-> length,
                  wild |-> \E k \in 1 .. length : WildBar(window[k], up, lo),
                  range_pct |-> Frac(up - lo, Abs(lo))]]

\* lines 162-185: for length in range(max_months, min_months - 1, -1)
RECURSIVE BodyBoxLoop(_, _)
BodyBoxLoop(bs, length) ==
    IF length < 3 THEN None
    ELSE IF BodyWindow(bs, length).fits THEN Some(BodyWindow(bs, length).box)
    ELSE BodyBoxLoop(bs, length - 1)

\* lines 125-185
DetectBodyBox(monthly_rows) ==
    LET valid == SelectSeq(monthly_rows, BodyConvertible)
    IN  IF Len(valid) < 3 THEN None
        ELSE BodyBoxLoop(SortByTime(valid), Min2(14, Len(valid)))

\* line 195 and line 196
IsValidClose(row) == row.c # None
Closes(rs) == LET kept == SelectSeq(rs, IsValidClose) IN [k \in 1 .. Len(kept) |-> Val(kept[k].c)]
Volumes(rs) == [k \in 1 .. Len(rs) |-> IF rs[k].v = None THEN 0 ELSE Val(rs[k].v)]

\* lines 235-237
HasClose(row) == ~("close" \in row.missing)
MonthlyCloses(monthly_rows) ==
    LET kept == SelectSeq(monthly_rows, HasClose) IN [k \in 1 .. Len(kept) |-> kept[k].close]

\* value if cond else 0, for the additive score terms
Pts(cond, value) == IF cond THEN value ELSE 0

\* Reason codes that leave out insufficient_daily_bars.
MissingReasonsWithoutBarCount(closes, ma20, ma60, ma100, monthly_rows, monthly_closes, chg1m, chg1q, chg1y, box) ==
    (IF closes = <<>> THEN <<"missing_last_close">> ELSE <<>>)
    \o (IF ma20 = None THEN <<"missing_ma20">> ELSE <<>>)
    \o (IF ma60 = None THEN <<"missing_ma60">> ELSE <<>>)
    \o (IF ma100 = None THEN <<"missing_ma100">> ELSE <<>>)
    \o (IF Len(monthly_closes) < 3 THEN <<"insufficient_monthly_bars">> ELSE <<>>)
    \o (IF chg1m = None THEN <<"missing_chg1m">> ELSE <<>>)
    \o (IF chg1q = None THEN <<"missing_chg1q">> ELSE <<>>)
    \o (IF chg1y = None THEN <<"missing_chg1y">> ELSE <<>>)
    \o (IF box = None /\ Len(monthly_rows) >= 3 THEN <<"no_box">> ELSE <<>>)

\* lines 191-220, 239-255: the reason codes, in the order they are appended.
MissingReasons(closes, ma20, ma60, ma100, monthly_rows, monthly_closes, chg1m, chg1q, chg1y, box) ==
    (IF closes = <<>> THEN <<"missing_last_close">> ELSE <<>>)
    \o (IF Len(closes) < 60 THEN <<"insufficient_daily_bars">> ELSE <<>>)
    \o (IF ma20 = None THEN <<"missing_ma20">> ELSE <<>>)
    \o (IF ma60 = None THEN <<"missing_ma60">> ELSE <<>>)
    \o (IF ma100 = None THEN <<"missing_ma100">> ELSE <<>>)
    \o (IF Len(monthly_closes) < 3 THEN <<"insufficient_monthly_bars">> ELSE <<>>)
    \o (IF chg1m = None THEN <<"missing_chg1m">> ELSE <<>>)
    \o (IF chg1q = None THEN <<"missing_chg1q">> ELSE <<>>)
    \o (IF chg1y = None THEN <<"missing_chg1y">> ELSE <<>>)
    \o (IF box = None /\ Len(monthly_rows) >= 3 THEN <<"no_box">> ELSE <<>>)

\* lines 257-265
BoxActive(box, monthly_rows) ==
    /\ box # None
    /\ monthly_rows # <<>>
    /\ LET latest_month == monthly_rows[Len(monthly_rows)].time
       IN  \/ Val(box).start <= latest_month /\ latest_month <= Val(box).end
           \/ /\ Len(monthly_rows) >= 2
              /\ Val(box).start <= monthly_rows[Len(monthly_rows) - 1].time
              /\ monthly_rows[Len(monthly_rows) - 1].time <= Val(box).end

\* lines 266-267
BreakoutUp(box, monthly_rows, last_close) ==
    /\ BoxActive(box, monthly_rows)
    /\ last_close # None
    /\ Val(last_close) > Val(box).upper

\* A gate that tests neither MA60 nor the number of closes.
EssentialMissingWithoutMa60(closes, last_close, ma20, ma60) ==
    \/ last_close = None
    \/ ma20 = None

\* lines 291-295: last_close > ma20, ma20 > ma60 and last_close > ma60 raise
\* TypeError when an operand is None.
ScoringRaises(last_close, ma20, ma60) ==
    \/ last_close = None
    \/ ma20 = None
    \/ ma60 = None

\* The call ends with an exception instead of a return value.
RaisedResult ==
    [stage |-> "", score |-> None, status |-> "RAISED",
     missing_reasons |-> <<>>, breakdown |-> <<>>]

\* A gate that asks for more than 60 closes.
EssentialMissingOffByOne(closes, last_close, ma20, ma60) ==
    \/ last_close = None
    \/ ma20 = None
    \/ ma60 = None
    \/ Len(closes) <= 60

\* lines 269-274
EssentialMissing(closes, last_close, ma20, ma60) ==
    \/ last_close = None
    \/ ma20 = None
    \/ ma60 = None
    \/ Len(closes) < 60

\* An early return that reports a score of 0.
InsufficientResultZeroScore(missing_reasons) ==
    [stage |-> "UNKNOWN", score |-> Some(0), status |-> "INSUFFICIENT_DATA",
     missing_reasons |-> missing_reasons, breakdown |-> <<>>]

\* line 277
InsufficientResult(missing_reasons) ==
    [stage |-> "UNKNOWN", score |-> None, status |-> "INSUFFICIENT_DATA",
     missing_reasons |-> missing_reasons, breakdown |-> <<>>]

\* (slope60 or 0) >= 0
SlopeOrZeroNonNegative(slope) == IF slope = None THEN 0 >= 0 ELSE Val(slope).num >= 0

\* A stage decision in which an undefined slope60 does not satisfy slope60 >= 0.
StageOfDefinedSlopeOnly(up60, down60, down20, last_close, ma60, slope60) ==
    IF /\ up60 # None
       /\ \/ Val(up60) >= 22
          \/ Above(last_close, ma60) /\ slope60 # None /\ Val(slope60).num >= 0
    THEN "C"
    ELSE IF down60 # None /\ down20 # None /\ Val(down60) >= 20 /\ Val(down20) >= 10
    THEN "A"
    ELSE "B"

\* lines 284-288; last_close and ma60 are defined here.
StageOf(up60, down60, down20, last_close, ma60, slope60) ==
    IF /\ up60 # None
       /\ \/ Val(up60) >= 22
          \/ Above(last_close, ma60) /\ SlopeOrZeroNonNegative(slope60)
    THEN "C"
    ELSE IF down60 # None /\ down20 # None /\ Val(down60) >= 20 /\ Val(down20) >= 10
    THEN "A"
    ELSE "B"

\* The trend points without the cap.
TrendUncapped(last_close, ma20, ma60, ma100, slope20) ==
    Pts(Above(last_close, ma20), 8)
    + Pts(FracGt(ma20, ma60), 10)
    + Pts(Above(last_close, ma60), 12)
    + Pts(ma100 # None /\ FracGt(ma60, Val(ma100)), 10)
    + Pts(slope20 # None /\ Val(slope20).num > 0, 3)

\* lines 290-301; last_close, ma20 and ma60 are defined here.
Trend(last_close, ma20, ma60, ma100, slope20) ==
    Min2(40,
         Pts(Above(last_close, ma20), 8)
         + Pts(FracGt(ma20, ma60), 10)
         + Pts(Above(last_close, ma60), 12)
         + Pts(ma100 # None /\ FracGt(ma60, Val(ma100)), 10)
         + Pts(slope20 # None /\ Val(slope20).num > 0, 3))

\* lines 303-310
InitMove(closes, ma20_series, last_close, ma20, breakout_up) ==
    Min2(25,
         Pts(/\ Len(closes) >= 2 /\ Len(ma20_series) >= 2
             /\ ma20_series[Len(ma20_series) - 1] # None
             /\ ~Above(closes[Len(closes) - 1], Val(ma20_series[Len(ma20_series) - 1]))
             /\ Above(last_close, ma20), 15)
         + Pts(breakout_up, 10))

\* lines 312-318; last_close >= ma20 * 0.98
BaseBuild(stage, last_close, ma20, ma7, ma7_series) ==
    Min2(15,
         Pts(stage = "A" /\ last_close * ma20.den * 100 >= ma20.num * 98, 8)
         + Pts(/\ ma7 # None /\ Len(ma7_series) >= 2
               /\ ma7_series[Len(ma7_series) - 1] # None
               /\ FracGt(Val(ma7), Val(ma7_series[Len(ma7_series) - 1])), 4))

\* lines 320-325
BoxScore(breakout_up, box_active) ==
    Min2(15, IF breakout_up THEN 12 ELSE IF box_active THEN 8 ELSE 0)

\* lines 327-332: ratio >= 1.5, ratio >= 1.1
VolumeScore(volume_ratio) ==
    IF volume_ratio # None /\ Val(volume_ratio).num * 2 >= Val(volume_ratio).den * 3 THEN 5
    ELSE IF volume_ratio # None /\ Val(volume_ratio).num * 10 >= Val(volume_ratio).den * 11 THEN 2
    ELSE 0

\* lines 334-339
Penalty(up20, up60) ==
    Max2(0 - 20,
         0 - Pts(up20 # None /\ Val(up20) >= 20, 5) - Pts(up60 # None /\ Val(up60) >= 22, 10))

\* line 351, and round(score, 3) of line 353: the points are whole numbers, which
\* rounding to three decimals leaves as they are.
ClampScore(total) == Max2(0, Min2(100, total))

\* lines 188-353
StageScore(daily_rows, monthly_rows) ==
    LET closes == Closes(daily_rows)
        volumes == Volumes(daily_rows)
        last_close == IF closes # <<>> THEN Some(closes[Len(closes)]) ELSE None
        ma7_series == BuildMaSeries(closes, 7)
        ma20_series == BuildMaSeries(closes, 20)
        ma60_series == BuildMaSeries(closes, 60)
        ma100_series == BuildMaSeries(closes, 100)
        ma7 == FromEnd(ma7_series, 1)
        ma20 == FromEnd(ma20_series, 1)
        ma60 == FromEnd(ma60_series, 1)
        ma100 == FromEnd(ma100_series, 1)
        slope20 == Slope(ma20_series)
        slope60 == Slope(ma60_series)
        mc == MonthlyCloses(monthly_rows)
        chg1m == IF Len(mc) >= 2 THEN PctChange(Some(mc[Len(mc)]), Some(mc[Len(mc) - 1])) ELSE None
        chg1q == IF Len(mc) >= 4 THEN PctChange(Some(mc[Len(mc)]), Some(mc[Len(mc) - 3])) ELSE None
        chg1y == IF Len(mc) >= 13 THEN PctChange(Some(mc[Len(mc)]), Some(mc[Len(mc) - 12])) ELSE None
        box == DetectBodyBox(monthly_rows)
        missing_reasons ==
            MissingReasons(closes, ma20, ma60, ma100, monthly_rows, mc, chg1m, chg1q, chg1y, box)
        box_active == BoxActive(box, monthly_rows)
        breakout_up == BreakoutUp(box, monthly_rows, last_close)
    IN  IF EssentialMissing(closes, last_close, ma20, ma60)
        THEN InsufficientResult(missing_reasons)
        ELSE IF ScoringRaises(last_close, ma20, ma60)
        THEN RaisedResult
        ELSE
        LET up60 == CountStreak(closes, ma60_series, "up")
            down60 == CountStreak(closes, ma60_series, "down")
            down20 == CountStreak(closes, ma20_series, "down")
            up20 == CountStreak(closes, ma20_series, "up")
            stage == StageOf(up60, down60, down20, Val(last_close), Val(ma60), slope60)
            trend == Trend(Val(last_close), Val(ma20), Val(ma60), ma100, slope20)
            init_move == InitMove(closes, ma20_series, Val(last_close), Val(ma20), breakout_up)
            base_build == BaseBuild(stage, Val(last_close), Val(ma20), ma7, ma7_series)
            box_score == BoxScore(breakout_up, box_active)
            volume_score == VolumeScore(ComputeVolumeRatio(volumes, 20))
            penalty == Penalty(up20, up60)
        IN  [stage |-> stage,
             score |-> Some(ClampScore(trend + init_move + base_build + box_score
                                       + volume_score + penalty)),
             status |-> "OK",
             missing_reasons |-> missing_reasons,
             breakdown |-> [trend |-> trend, init_move |-> init_move,
                            base_build |-> base_build, box |-> box_score,
                            volume |-> volume_score, penalty |-> penalty]]

\* Bound on the daily rows appended to a loaded frame.
MaxTail == 2

\* n rows closing at price with the base volume.
Run(price, n) == [k \in 1 .. n |-> [c |-> Some(price), v |-> Some(10)]]

\* Loaded daily frames: up to three flat stretches, long enough for MA60 / MA100.
DailyFrames ==
    { Run(p1, n1) \o Run(p2, n2) \o Run(p3, n3) :
        p1 \in {100, 104}, p2 \in {100, 102}, p3 \in {100, 104},
        n1 \in {0, 59}, n2 \in {0, 21}, n3 \in {0, 21} }

\* Rows the feed appends: price moves, volume surges, a row without a close.
TailRows ==
    { [c |-> Some(100), v |-> Some(10)],
      [c |-> Some(102), v |-> Some(10)],
      [c |-> Some(104), v |-> Some(20)],
      [c |-> Some(100), v |-> Some(12)],
      [c |-> None,      v |-> None] }

MonthRow(t, o, h, l, c) ==
    [time |-> t, open |-> o, high |-> h, low |-> l, close |-> c, missing |-> {}]

\* Monthly frames: empty, too short, a tight box, a tight box with a wild wick,
\* no box.
MonthlyFrames ==
    { <<>>,
      <<MonthRow(202401, 100, 101, 99, 101), MonthRow(202402, 101, 102, 100, 100)>>,
      <<MonthRow(202401, 100, 101, 99, 101), MonthRow(202402, 101, 102, 100, 100),
        MonthRow(202403, 100, 103, 99, 103)>>,
      <<MonthRow(202401, 100, 101, 99, 101), MonthRow(202402, 101, 120, 100, 100),
        MonthRow(202403, 100, 103, 99, 103), MonthRow(202404, 103, 103, 100, 101)>>,
      <<MonthRow(202401, 60, 101, 60, 101), MonthRow(202402, 101, 102, 80, 80),
        MonthRow(202403, 80, 130, 80, 130)>> }

StageInit ==
    /\ daily \in DailyFrames
    /\ monthly \in MonthlyFrames
    /\ appended = 0
    /\ result = NoResult

\* The feed appends a daily row before the score is computed.
AppendDaily ==
    /\ result = NoResult
    /\ appended < MaxTail
    /\ \E row \in TailRows : daily' = Append(daily, row)
    /\ appended' = appended + 1
    /\ UNCHANGED <<monthly, result>>
    /\ UNCHANGED nonStageVars

\* lines 188-353: one call.
ComputeStageScore ==
    /\ result = NoResult
    /\ result' = StageScore(daily, monthly)
    /\ UNCHANGED <<daily, monthly, appended>>
    /\ UNCHANGED nonStageVars

StageNext == AppendDaily \/ ComputeStageScore
StageSpecInit ==
    CacheIdle /\ GrowIdle /\ DateIdle /\ BodyIdle /\ RepeatIdle /\ RankIdle
    /\ ScoreIdle /\ BoxIdle /\ StreakIdle /\ MaIdle /\ NormIdle /\ StageInit
StageSpec == StageSpecInit /\ [][StageNext]_vars

(***************************************************************************)
(*                Properties of compute_stage_score                        *)
(***************************************************************************)

Called == result.status # "NOT_CALLED"
Reasons == { result.missing_reasons[k] : k \in 1 .. Len(result.missing_reasons) }

\* The sum s[lo] + ... + s[hi], taken directly.
RECURSIVE SumRange(_, _, _)
SumRange(s, lo, hi) ==
    IF lo > hi THEN 0
    ELSE IF lo = hi THEN s[lo]
    ELSE SumRange(s, lo, (lo + hi) \div 2) + SumRange(s, (lo + hi) \div 2 + 1, hi)

\* The valid closes of the frame the score was computed from.
InputCloses == Closes(daily)
\* The close at position k is above the mean of the period closes ending at k.
AboveOwnMa(k, period) == InputCloses[k] * period > SumRange(InputCloses, k - period + 1, k)

\* C6: status is OK or INSUFFICIENT_DATA; with OK the score is a number in [0, 100] and
\* the stage is A, B or C; with INSUFFICIENT_DATA the score is null and the stage UNKNOWN.
C6_StatusScoreStage ==
    Called =>
        /\ result.status \in {"OK", "INSUFFICIENT_DATA"}
        /\ result.status = "OK" =>
              /\ result.score # None
              /\ 0 <= Val(result.score) /\ Val(result.score) <= 100
              /\ result.stage \in {"A", "B", "C"}
        /\ result.status = "INSUFFICIENT_DATA" =>
              /\ result.score = None
              /\ result.stage = "UNKNOWN"

\* a scored stage A, after frames that gave INSUFFICIENT_DATA are possible too
C6_ScoredStageA ==
    /\ result.status = "OK" /\ result.stage = "A" /\ Val(result.score) > 0

\* C7: if the last close, MA20 or MA60 is undefined, or fewer than 60 closes are
\* supplied, the result is UNKNOWN / null / INSUFFICIENT_DATA with no breakdown, and
\* missingReasons holds the code of every gap that applies: insufficient_daily_bars
\* with fewer than 60 closes, missing_ma20 / missing_ma60 / missing_ma100 when fewer
\* closes than the period exist, missing_last_close when there is no close.
C7_EssentialDataGate ==
    (Called /\ (InputCloses = <<>> \/ Len(InputCloses) < 20 \/ Len(InputCloses) < 60)) =>
        /\ result.stage = "UNKNOWN"
        /\ result.score = None
        /\ result.status = "INSUFFICIENT_DATA"
        /\ DOMAIN result.breakdown = {}
        /\ "insufficient_daily_bars" \in Reasons
        /\ "missing_ma60" \in Reasons
        /\ Len(InputCloses) < 20 => "missing_ma20" \in Reasons
        /\ "missing_ma100" \in Reasons
        /\ InputCloses = <<>> => "missing_last_close" \in Reasons
        /\ Len(MonthlyCloses(monthly)) < 3 => "insufficient_monthly_bars" \in Reasons

\* Scenario D with MA20 defined and MA60 not: between 20 and 59 closes
C7_FewerThanSixtyCloses ==
    /\ Called
    /\ Len(InputCloses) >= 20 /\ Len(InputCloses) < 60
    /\ "insufficient_daily_bars" \in Reasons
    /\ ~("missing_ma20" \in Reasons)

\* The streaks the stage decision reads.
Up60   == CountStreak(InputCloses, BuildMaSeries(InputCloses, 60), "up")
Down60 == CountStreak(InputCloses, BuildMaSeries(InputCloses, 60), "down")
Down20 == CountStreak(InputCloses, BuildMaSeries(InputCloses, 20), "down")

\* slope60 is defined from 61 closes on; it is latest MA60 - previous MA60.
Slope60Defined == Len(InputCloses) >= 61
Slope60NonNegative ==
    SumRange(InputCloses, Len(InputCloses) - 59, Len(InputCloses))
        >= SumRange(InputCloses, Len(InputCloses) - 60, Len(InputCloses) - 1)

\* The stage by the order C, A, B, given whether the slope condition holds.
StageByOrder(slope_ok) ==
    IF Val(Up60) >= 22 \/ (AboveOwnMa(Len(InputCloses), 60) /\ slope_ok) THEN "C"
    ELSE IF Val(Down60) >= 20 /\ Val(Down20) >= 10 THEN "A"
    ELSE "B"

\* C8 as stated: with status OK the stage is C if up-streak(MA60) >= 22 or (last close >
\* MA60 and slope60 >= 0), an undefined slope60 not satisfying slope60 >= 0; otherwise A
\* if down-streak(MA60) >= 20 and down-streak(MA20) >= 10; otherwise B.
C8_StageOrderUndefinedSlopeFails ==
    (Called /\ result.status = "OK") =>
        result.stage = StageByOrder(Slope60Defined /\ Slope60NonNegative)

\* C8 amended: the same order, but an undefined slope60 (exactly 60 closes) counts as 0
\* and so satisfies slope60 >= 0; and when the latest 22 closes are all above their
\* MA60 the stage is C.
C8_StageOrder ==
    (Called /\ result.status = "OK") =>
        /\ result.stage = StageByOrder(~Slope60Defined \/ Slope60NonNegative)
        /\ ( /\ Len(InputCloses) >= 81
             /\ \A k \in (Len(InputCloses) - 21) .. Len(InputCloses) : AboveOwnMa(k, 60) )
           => result.stage = "C"

\* exactly 60 closes, the last above its MA60: slope60 is undefined and the stage is C
C8_SixtyClosesStageC ==
    /\ Called /\ result.status = "OK"
    /\ Len(InputCloses) = 60
    /\ AboveOwnMa(60, 60)
    /\ result.stage = "C"

\* C9: with status OK the breakdown has exactly the components trend, init_move,
\* base_build, box, volume, penalty, each within its cap, and the score is their sum
\* clamped to [0, 100].
C9_BreakdownCapsAndSum ==
    (Called /\ result.status = "OK") =>
        LET b == result.breakdown
            total == b.trend + b.init_move + b.base_build + b.box + b.volume + b.penalty
        IN  /\ DOMAIN b = {"trend", "init_move", "base_build", "box", "volume", "penalty"}
            /\ 0 <= b.trend /\ b.trend <= 40
            /\ 0 <= b.init_move /\ b.init_move <= 25
            /\ 0 <= b.base_build /\ b.base_build <= 15
            /\ 0 <= b.box /\ b.box <= 15
            /\ b.volume \in {0, 2, 5}
            /\ 0 - 20 <= b.penalty /\ b.penalty <= 0
            /\ result.score = Some(IF total < 0 THEN 0 ELSE IF total > 100 THEN 100 ELSE total)

\* the trend at its cap together with both penalties and a volume surge
C9_CappedTrendWithPenalties ==
    /\ Called /\ result.status = "OK"
    /\ result.breakdown.trend = 40
    /\ result.breakdown.penalty = 0 - 15
    /\ result.breakdown.volume = 5

\* The codes of the gaps that make the data insufficient.
EssentialCodes == {"missing_last_close", "insufficient_daily_bars", "missing_ma20", "missing_ma60"}

\* C29: the essential-data gate is the count of valid closes: the status is
\* INSUFFICIENT_DATA exactly when fewer than 60 valid closes are supplied and OK
\* otherwise, missing_ma60 is reported exactly when insufficient_daily_bars is, and
\* with status OK none of the essential codes is reported.
C29_GateIsCloseCount ==
    Called =>
        /\ result.status = "INSUFFICIENT_DATA" <=> Len(InputCloses) < 60
        /\ result.status = "OK" <=> Len(InputCloses) >= 60
        /\ "missing_ma60" \in Reasons <=> "insufficient_daily_bars" \in Reasons
        /\ result.status = "OK" => Reasons \cap EssentialCodes = {}

\* 61 daily rows of which one has no close: exactly 60 valid closes, status OK, and
\* the non-essential missing_ma100 is reported
C29_SixtyValidCloses ==
    /\ Called
    /\ Len(daily) = 61 /\ Len(InputCloses) = 60
    /\ result.status = "OK"
    /\ "missing_ma100" \in Reasons

(***************************************************************************)
(*                  Properties of _build_ma_series                         *)
(***************************************************************************)

\* C12: for every period >= 1 the returned series has the length of the input, entry i
\* (0-based) is None for i < period - 1 and otherwise is (the sum of the closes at
\* positions i-period+1 .. i) / period: the running sum equals the direct window sum
\* at every index.
C12_MaIsWindowMean ==
    (m_outcome = "returned" /\ m_period >= 1) =>
        /\ Len(m_result) = Len(m_values)
        /\ \A k \in 1 .. Len(m_result) :
              IF k < m_period THEN m_result[k] = None
              ELSE m_result[k] = Some(Frac(SumRange(m_values, k - m_period + 1, k), m_period))

\* C16: called with a negative period, the builder does not return a series.
C16_NegativePeriodRaises ==
    m_period < 0 => m_outcome # "returned"

\* The reason codes compute_stage_score can report.
ReasonCodes ==
    { "missing_last_close", "insufficient_daily_bars", "missing_ma20", "missing_ma60",
      "missing_ma100", "insufficient_monthly_bars", "missing_chg1m", "missing_chg1q",
      "missing_chg1y", "no_box" }

\* C14: data-quality gaps never surface as an exception: for every daily and monthly
\* series the call ends with a structured result whose status is OK or
\* INSUFFICIENT_DATA, together with the list of missing reasons.
C14_NoExceptionOnGaps ==
    Called =>
        /\ result.status # "RAISED"
        /\ result.status \in {"OK", "INSUFFICIENT_DATA"}
        /\ Reasons \subseteq ReasonCodes
        /\ Len(result.missing_reasons) = Cardinality(Reasons)

\* both series empty: every gap at once
C14_EmptySeries ==
    /\ Called
    /\ daily = <<>> /\ monthly = <<>>
    /\ result.status = "INSUFFICIENT_DATA"
    /\ Reasons = ReasonCodes \ {"no_box"}

(***************************************************************************)
(*     main.py: _score_weekly_candidate, _score_monthly_candidate          *)
(***************************************************************************)

\* dict.get(key, default)
Get(f, key, default) == IF key \in DOMAIN f THEN f[key] ELSE default

\* Weights and scores are counted in units of 0.0001.
\* round(x, 3): the nearest multiple of 0.001 (ties to the even one).
Round3(x) ==
    LET a == Abs(x)
        down == (a \div 10) * 10
        rest == a - down
        nearest == IF rest < 5 THEN down
                   ELSE IF rest > 5 THEN down + 10
                   ELSE IF (down \div 10) % 2 = 0 THEN down ELSE down + 10
    IN  IF x < 0 THEN 0 - nearest ELSE nearest

\* lines 2008-2110: the signal blocks of _score_weekly_candidate in the order they are
\* evaluated: the axis whose score and reasons the block feeds, the key of its
\* weight, its badge.  The reason label stands for the text the block formats.
WeeklyBlocks ==
    << [axis |-> "up", key |-> "ma_alignment",        badge |-> "ma_aligned"],
       [axis |-> "up", key |-> "pullback_above_ma20", badge |-> "pullback"],
       [axis |-> "up", key |-> "volume_spike",        badge |-> "volume_up"],
       [axis |-> "up", key |-> "near_high_break",     badge |-> "near_high"],
       [axis |-> "up", key |-> "slope_up",            badge |-> "ma_rising"],
       [axis |-> "up", key |-> "big_bull_candle",     badge |-> "strong_bull"],
       [axis |-> "up", key |-> "ma20_support",        badge |-> "near_ma20"],
       [axis |-> "down", key |-> "ma_alignment",        badge |-> "ma_reversed"],
       [axis |-> "down", key |-> "pullback_below_ma20", badge |-> "rebound"],
       [axis |-> "down", key |-> "volume_spike",        badge |-> "volume_up"],
       [axis |-> "down", key |-> "near_low_break",      badge |-> "near_low"],
       [axis |-> "down", key |-> "slope_down",          badge |-> "ma_falling"],
       [axis |-> "down", key |-> "big_bear_candle",     badge |-> "strong_bear"],
       [axis |-> "down", key |-> "ma20_resistance",     badge |-> "near_ma20"] >>

\* The keys of the blocks of one axis, in evaluation order.
AxisKeys(axis) ==
    LET blocks == SelectSeq(WeeklyBlocks, LAMBDA b : b.axis = axis)
    IN  [k \in 1 .. Len(blocks) |-> blocks[k].key]

\* lines 1986-1990: weights for up, down_weights for down
AxisWeights(config, axis) == IF axis = "up" THEN config.weights ELSE config.down_weights

\* A push_reason that appends whatever the weight is.
PushReasonAlways(target, weight, label) == Append(target, [weight |-> weight, label |-> label])

\* lines 2000-2002: push_reason
PushReason(target, weight, label) ==
    IF weight # 0 THEN Append(target, [weight |-> weight, label |-> label]) ELSE target

\* lines 2004-2006: push_badge
PushBadge(target, label) ==
    IF label # "" /\ ~(\E k \in 1 .. Len(target) : target[k] = label)
    THEN Append(target, label) ELSE target

\* A sort that leaves the list as it is.
Unsorted(s) == s

\* list.sort(key=item[0], reverse=True): descending by weight, stable.
SortByWeightDesc(s) ==
    [k \in 1 .. Len(s) |->
        s[CHOOSE i \in 1 .. Len(s) :
            k = 1 + Cardinality({ j \in 1 .. Len(s) :
                                    \/ s[j].weight > s[i].weight
                                    \/ s[j].weight = s[i].weight /\ j < i })]]

\* s[:n] for n >= 0
Take(s, n) == SubSeq(s, 1, Min2(n, Len(s)))

\* lines 1991 / 2182: int(common.get("max_reasons", 6))
MaxReasons(config) == IF config.max_reasons = None THEN 6 ELSE Val(config.max_reasons)

Labels(reasons) == [k \in 1 .. Len(reasons) |-> reasons[k].label]

\* Rank configs: a usual one with equal weights among the signals; one with zero,
\* absent, tiny and negative weights; one without any weight.
RankConfigs ==
    { [weights |-> [ma_alignment |-> 20000, pullback_above_ma20 |-> 15000,
                    volume_spike |-> 10000, near_high_break |-> 10000, slope_up |-> 5000,
                    big_bull_candle |-> 5000, ma20_support |-> 5000],
       down_weights |-> [ma_alignment |-> 20000, pullback_below_ma20 |-> 15000,
                         volume_spike |-> 10000, near_low_break |-> 10000,
                         slope_down |-> 5000, big_bear_candle |-> 5000,
                         ma20_resistance |-> 5000],
       monthly_weights |-> [box_months |-> 10000, near_edge |-> 20000,
                            wild_box_penalty |-> 0 - 30000],
       max_reasons |-> None],
      [weights |-> [ma_alignment |-> 0, volume_spike |-> 10000, near_high_break |-> 4,
                    slope_up |-> 30000, ma20_support |-> 6],
       down_weights |-> [ma_alignment |-> 10000, volume_spike |-> 0,
                         slope_down |-> 0 - 5000],
       monthly_weights |-> [box_months |-> 10000, near_edge |-> 10000],
       max_reasons |-> Some(2)],
      [weights |-> <<>>, down_weights |-> <<>>, monthly_weights |-> <<>>,
       max_reasons |-> Some(1)] }

\* What the rows of a weekly candidate make of the conditions: a skip reason, or the
\* signal blocks whose condition holds.
WeeklyInputs ==
    { [skip |-> r, up |-> {}, down |-> {}] : r \in {"insufficient_daily_bars", "missing_ma"} }
    \cup { [skip |-> "none", up |-> u, down |-> d] :
             u \in SUBSET { AxisKeys("up")[k] : k \in 1 .. 7 },
             d \in { {}, {"volume_spike", "slope_down"}, { AxisKeys("down")[k] : k \in 1 .. 7 } } }

\* What the rows of a monthly candidate give: a skip reason, or the box: its months,
\* its wild flag, the nearer edge and ratio = 1 - edge_pct / near_edge_pct as
\* ratio_num / 2 ("far": edge_pct > near_edge_pct).
MonthlyInputs ==
    { [skip |-> r, months |-> 0, wild |-> FALSE, edge |-> "far", ratio_num |-> 0] :
         r \in {"insufficient_monthly_bars", "no_box"} }
    \cup { [skip |-> "none", months |-> m, wild |-> w, edge |-> e, ratio_num |-> q] :
             m \in {3, 4}, w \in BOOLEAN, e \in {"far", "up", "down"}, q \in {1, 2} }

Called0 == [state |-> "called", skip |-> "none", items |-> <<>>]

ScoreInit ==
    /\ c_kind \in {"weekly", "monthly"}
    /\ c_input \in (IF c_kind = "weekly" THEN WeeklyInputs ELSE MonthlyInputs)
    /\ c_config \in RankConfigs
    /\ c_pos = 0
    /\ c_score = <<>> /\ c_reasons = <<>> /\ c_badges = <<>>
    /\ c_out = Called0

\* The accumulators of a scorer: score, reasons and badges by axis.
\* lines 1993-1998 / 2195-2196: they start empty
StartLocals(kind) ==
    IF kind = "weekly"
    THEN [score |-> [up |-> 0, down |-> 0],
          reasons |-> [up |-> <<>>, down |-> <<>>],
          badges |-> [up |-> <<>>, down |-> <<>>]]
    ELSE [score |-> [box |-> 0], reasons |-> [box |-> <<>>], badges |-> [box |-> <<>>]]

\* lines 2008-2110: signal block k of _score_weekly_candidate
WeeklyBlock(loc, input, config, k) ==
    LET block == WeeklyBlocks[k]
        weight == Get(AxisWeights(config, block.axis), block.key, 0)
    IN  IF block.key \in input[block.axis]
        THEN [score |-> [loc.score EXCEPT ![block.axis] = @ + weight],
              reasons |-> [loc.reasons EXCEPT ![block.axis] = PushReason(@, weight, block.key)],
              badges |-> [loc.badges EXCEPT ![block.axis] = PushBadge(@, block.badge)]]
        ELSE loc

\* lines 2197-2202: the months of the box
MonthlyBoxMonthsBlock(loc, input, config) ==
    LET weight_month == Get(config.monthly_weights, "box_months", 0)
    IN  IF weight_month # 0
        THEN [loc EXCEPT !.score.box = @ + weight_month * input.months,
                         !.reasons.box = Append(@, [weight |-> weight_month,
                                                    label |-> "box_months"])]
        ELSE loc

\* lines 2204-2212: the nearer edge of the box; the reason is appended whatever
\* the weight is
MonthlyNearEdgeBlock(loc, input, config) ==
    LET weight == Get(config.monthly_weights, "near_edge", 0)
    IN  IF input.edge # "far"
        THEN [loc EXCEPT !.score.box = @ + (weight * input.ratio_num) \div 2,
                         !.reasons.box = Append(@, [weight |-> weight,
                                                    label |-> IF input.edge = "up"
                                                              THEN "to_break_up"
                                                              ELSE "to_break_down"])]
        ELSE loc

\* lines 2214-2216: the wild box penalty
MonthlyWildBlock(loc, input, config) ==
    LET wild_penalty == Get(config.monthly_weights, "wild_box_penalty", 0)
    IN  IF input.wild /\ wild_penalty # 0
        THEN [loc EXCEPT !.score.box = @ + wild_penalty,
                         !.reasons.box = Append(@, [weight |-> wild_penalty,
                                                    label |-> "wild_box"])]
        ELSE loc

\* The item of one axis: lines 2154-2165 / 2245-2249.
AxisItem(score, reasons, badges, config) ==
    [total_score |-> Round3(score),
     reasons |-> Labels(Take(reasons, MaxReasons(config))),
     badges |-> Take(badges, MaxReasons(config))]

\* lines 2112-2113 / 2226: the reasons are sorted in place
SortedReasons(loc) == [a \in DOMAIN loc.reasons |-> SortByWeightDesc(loc.reasons[a])]

\* lines 2112-2167 / 2226-2271: the returned items, by axis
ReturnedItems(loc, config) ==
    [a \in DOMAIN loc.score |->
        AxisItem(loc.score[a], SortedReasons(loc)[a], loc.badges[a], config)]

Locals == [score |-> c_score, reasons |-> c_reasons, badges |-> c_badges]

\* lines 1940-1941, 1961-1962 / 2174-2179: the candidate is skipped
ScoreSkip ==
    /\ c_out.state = "called"
    /\ c_input.skip # "none"
    /\ c_out' = [state |-> "returned", skip |-> c_input.skip, items |-> <<>>]
    /\ UNCHANGED <<c_kind, c_input, c_config, c_pos, c_score, c_reasons, c_badges>>
    /\ UNCHANGED nonScoreVars

\* lines 1993-1998 / 2195-2196: the accumulators start empty
ScoreStart ==
    /\ c_out.state = "called"
    /\ c_input.skip = "none"
    /\ c_pos' = 0
    /\ c_score' = StartLocals(c_kind).score
    /\ c_reasons' = StartLocals(c_kind).reasons
    /\ c_badges' = StartLocals(c_kind).badges
    /\ c_out' = [c_out EXCEPT !.state = "running"]
    /\ UNCHANGED <<c_kind, c_input, c_config>>
    /\ UNCHANGED nonScoreVars

\* lines 2008-2110: the next signal block of _score_weekly_candidate
WeeklySignal ==
    /\ c_kind = "weekly" /\ c_out.state = "running"
    /\ c_pos < Len(WeeklyBlocks)
    /\ LET loc == WeeklyBlock(Locals, c_input, c_config, c_pos + 1)
       IN  /\ c_score' = loc.score
           /\ c_reasons' = loc.reasons
           /\ c_badges' = loc.badges
    /\ c_pos' = c_pos + 1
    /\ UNCHANGED <<c_kind, c_input, c_config, c_out>>
    /\ UNCHANGED nonScoreVars

\* lines 2112-2167: sort the reasons, build both items, return
WeeklyReturn ==
    /\ c_kind = "weekly" /\ c_out.state = "running"
    /\ c_pos >= Len(WeeklyBlocks)
    /\ c_reasons' = SortedReasons(Locals)
    /\ c_out' = [state |-> "returned", skip |-> "none", items |-> ReturnedItems(Locals, c_config)]
    /\ UNCHANGED <<c_kind, c_input, c_config, c_pos, c_score, c_badges>>
    /\ UNCHANGED nonScoreVars

\* lines 2197-2202
MonthlyBoxMonths ==
    /\ c_kind = "monthly" /\ c_out.state = "running"
    /\ c_pos = 0
    /\ LET loc == MonthlyBoxMonthsBlock(Locals, c_input, c_config)
       IN  c_score' = loc.score /\ c_reasons' = loc.reasons
    /\ c_pos' = 1
    /\ UNCHANGED <<c_kind, c_input, c_config, c_badges, c_out>>
    /\ UNCHANGED nonScoreVars

\* lines 2204-2212
MonthlyNearEdge ==
    /\ c_kind = "monthly" /\ c_out.state = "running"
    /\ c_pos = 1
    /\ LET loc == MonthlyNearEdgeBlock(Locals, c_input, c_config)
       IN  c_score' = loc.score /\ c_reasons' = loc.reasons
    /\ c_pos' = 2
    /\ UNCHANGED <<c_kind, c_input, c_config, c_badges, c_out>>
    /\ UNCHANGED nonScoreVars

\* lines 2214-2216
MonthlyWild ==
    /\ c_kind = "monthly" /\ c_out.state = "running"
    /\ c_pos = 2
    /\ LET loc == MonthlyWildBlock(Locals, c_input, c_config)
       IN  c_score' = loc.score /\ c_reasons' = loc.reasons
    /\ c_pos' = 3
    /\ UNCHANGED <<c_kind, c_input, c_config, c_badges, c_out>>
    /\ UNCHANGED nonScoreVars

\* lines 2226-2271: sort the reasons, build the item, return
MonthlyReturn ==
    /\ c_kind = "monthly" /\ c_out.state = "running"
    /\ c_pos = 3
    /\ c_reasons' = SortedReasons(Locals)
    /\ c_out' = [state |-> "returned", skip |-> "none", items |-> ReturnedItems(Locals, c_config)]
    /\ UNCHANGED <<c_kind, c_input, c_config, c_pos, c_score, c_badges>>
    /\ UNCHANGED nonScoreVars

ScoreNext ==
    \/ ScoreSkip \/ ScoreStart \/ WeeklySignal \/ WeeklyReturn
    \/ MonthlyBoxMonths \/ MonthlyNearEdge \/ MonthlyWild \/ MonthlyReturn
ScoreSpecInit ==
    CacheIdle /\ GrowIdle /\ DateIdle /\ BodyIdle /\ RepeatIdle /\ RankIdle /\ BoxIdle
    /\ StageIdle /\ StreakIdle /\ MaIdle /\ NormIdle /\ ScoreInit
ScoreSpec == ScoreSpecInit /\ [][ScoreNext]_vars

(***************************************************************************)
(*                Properties of the candidate scorers                      *)
(***************************************************************************)

\* The scorer has returned an item (the candidate was not skipped).
Scored == c_out.state = "returned" /\ c_out.skip = "none"

\* The weight key of the signal a reason label belongs to.
KeyOf(label) ==
    IF label \in {"to_break_up", "to_break_down"} THEN "near_edge"
    ELSE IF label = "wild_box" THEN "wild_box_penalty"
    ELSE label

\* The configured weight of a signal of an axis (0 when the config has none).
ConfiguredWeight(axis, key) ==
    Get(IF axis = "box" THEN c_config.monthly_weights ELSE AxisWeights(c_config, axis), key, 0)

\* The place of a signal in the order in which the scorer evaluates the signals.
EvaluationOrder(axis, key) ==
    LET keys == IF axis = "box" THEN <<"box_months", "near_edge", "wild_box_penalty">>
                ELSE AxisKeys(axis)
    IN  CHOOSE k \in 1 .. Len(keys) : keys[k] = key

\* C19: in every rank candidate the emitted reasons are ordered by the configured
\* weight of their signal, highest first, equal weights in signal-evaluation order;
\* at most max_reasons (default 6) are emitted, and they are the highest-weight ones
\* of the reasons the signals appended.
C19_ReasonsByWeightTruncated ==
    Scored =>
        \A axis \in DOMAIN c_out.items :
            LET emitted == c_out.items[axis].reasons
                pushed == { c_reasons[axis][k].label : k \in 1 .. Len(c_reasons[axis]) }
                W(label) == ConfiguredWeight(axis, KeyOf(label))
            IN  /\ Len(emitted) = Min2(MaxReasons(c_config), Len(c_reasons[axis]))
                /\ \A i, j \in 1 .. Len(emitted) :
                      i < j =>
                         \/ W(emitted[i]) > W(emitted[j])
                         \/ /\ W(emitted[i]) = W(emitted[j])
                            /\ EvaluationOrder(axis, KeyOf(emitted[i]))
                                 < EvaluationOrder(axis, KeyOf(emitted[j]))
                /\ \A k \in 1 .. Len(emitted) : emitted[k] \in pushed
                /\ \A label \in pushed :
                      (\A k \in 1 .. Len(emitted) : emitted[k] # label)
                         => \A k \in 1 .. Len(emitted) : W(emitted[k]) >= W(label)

\* three up reasons pushed in the order volume_spike, near_high_break, slope_up, or
\* more; the two emitted are the heaviest, slope_up first
C19_HeaviestTwoEmitted ==
    /\ Scored /\ c_kind = "weekly"
    /\ c_config.max_reasons = Some(2)
    /\ Len(c_reasons.up) >= 3
    /\ c_out.items.up.reasons = <<"slope_up", "volume_spike">>

\* The sum of the configured weights (absent = 0) of the triggered signals of an axis.
TriggeredWeightSum(axis) ==
    SeqSum([k \in 1 .. Len(AxisKeys(axis)) |->
               IF AxisKeys(axis)[k] \in c_input[axis]
               THEN ConfiguredWeight(axis, AxisKeys(axis)[k]) ELSE 0])

\* C20 as stated: for a weekly candidate and each axis, total_score is the sum of the
\* configured weights of exactly the triggered signals and, before truncation, the
\* reason list has exactly one entry per triggered signal, whatever the weights are.
C20_OneReasonPerTriggeredSignal ==
    (Scored /\ c_kind = "weekly") =>
        \A axis \in {"up", "down"} :
            /\ c_out.items[axis].total_score = TriggeredWeightSum(axis)
            /\ Len(c_reasons[axis]) = Cardinality(c_input[axis])
            /\ { c_reasons[axis][k].label : k \in 1 .. Len(c_reasons[axis]) } = c_input[axis]

\* C20 amended: total_score is that sum rounded to 3 decimals, and before truncation
\* the reason list has exactly one entry per triggered signal whose configured weight
\* is not 0; a triggered signal with weight 0 or no weight adds no reason.
C20_OneReasonPerWeightedSignal ==
    (Scored /\ c_kind = "weekly") =>
        \A axis \in {"up", "down"} :
            LET weighted == { key \in c_input[axis] : ConfiguredWeight(axis, key) # 0 }
            IN  /\ c_out.items[axis].total_score = Round3(TriggeredWeightSum(axis))
                /\ Len(c_reasons[axis]) = Cardinality(weighted)
                /\ { c_reasons[axis][k].label : k \in 1 .. Len(c_reasons[axis]) } = weighted
                /\ \A k \in 1 .. Len(c_reasons[axis]) :
                      c_reasons[axis][k].weight = ConfiguredWeight(axis, c_reasons[axis][k].label)

\* three signals trigger, one with weight 0 and one without a weight: one reason
C20_ZeroAndAbsentWeights ==
    /\ Scored /\ c_kind = "weekly"
    /\ c_input.up = {"ma_alignment", "pullback_above_ma20", "volume_spike"}
    /\ ConfiguredWeight("up", "ma_alignment") = 0
    /\ ~("pullback_above_ma20" \in DOMAIN c_config.weights)
    /\ Labels(c_reasons.up) = <<"volume_spike">>
    /\ c_out.items.up.total_score = 10000

(***************************************************************************)
(*      _build_weekly_ranking, _build_monthly_ranking (main.py)            *)
(***************************************************************************)

\* The signal blocks k.. of _score_weekly_candidate, one after the other.
RECURSIVE WeeklyFold(_, _, _, _)
WeeklyFold(loc, input, config, k) ==
    IF k > Len(WeeklyBlocks) THEN loc
    ELSE WeeklyFold(WeeklyBlock(loc, input, config, k), input, config, k + 1)

\* _score_weekly_candidate / _score_monthly_candidate as one call: the skip reason
\* or the items by axis.
ScoreCandidate(kind, input, config) ==
    IF input.skip # "none" THEN [skip |-> input.skip, items |-> <<>>]
    ELSE LET loc == IF kind = "weekly"
                    THEN WeeklyFold(StartLocals(kind), input, config, 1)
                    ELSE MonthlyWildBlock(
                             MonthlyNearEdgeBlock(
                                 MonthlyBoxMonthsBlock(StartLocals(kind), input, config),
                                 input, config),
                             input, config)
         IN  [skip |-> "none", items |-> ReturnedItems(loc, config)]

\* lines 2154-2155 / 2245-2246: the item carries the code of its candidate
RankedItem(code, item) ==
    [code |-> code, total_score |-> item.total_score,
     reasons |-> item.reasons, badges |-> item.badges]

\* A sort that puts the lowest score first.
SortByScoreAsc(s) ==
    [k \in 1 .. Len(s) |->
        s[CHOOSE i \in 1 .. Len(s) :
            k = 1 + Cardinality({ j \in 1 .. Len(s) :
                                    \/ s[j].total_score < s[i].total_score
                                    \/ s[j].total_score = s[i].total_score /\ j < i })]]

\* lines 2329-2330 / 2386: list.sort(key=total_score, reverse=True): descending by
\* total_score, stable.
SortByScoreDesc(s) ==
    [k \in 1 .. Len(s) |->
        s[CHOOSE i \in 1 .. Len(s) :
            k = 1 + Cardinality({ j \in 1 .. Len(s) :
                                    \/ s[j].total_score > s[i].total_score
                                    \/ s[j].total_score = s[i].total_score /\ j < i })]]

\* The axes of a ranking: lines 2314-2315 / 2374.
Axes(kind) == IF kind = "weekly" THEN {"up", "down"} ELSE {"box"}

MaxCodes == 3
MaxCalls == 2

\* The codes _resolve_universe_codes returns, in the order it returns them (the
\* order of the universe file, which need not be the order of the codes).
UniverseCodes == <<"7203", "1301", "9984", "6758", "4063">>

\* lines 3539, 3562, 3584: every caller clamps the limit to 1 .. 200
Limits == {1, 2, 200}

\* What the rows of the codes of a weekly universe make of the conditions.
RankWeeklyInputs ==
    { [skip |-> "insufficient_daily_bars", up |-> {}, down |-> {}],
      [skip |-> "none", up |-> {"ma_alignment", "slope_up"}, down |-> {}],
      [skip |-> "none", up |-> {"pullback_above_ma20", "volume_spike"},
       down |-> {"volume_spike", "slope_down"}],
      [skip |-> "none", up |-> {"volume_spike"}, down |-> {}],
      [skip |-> "none", up |-> {}, down |-> { AxisKeys("down")[k] : k \in 1 .. 7 }] }

\* What the rows of the codes of a monthly universe give.
RankMonthlyInputs ==
    { [skip |-> "no_box", months |-> 0, wild |-> FALSE, edge |-> "far", ratio_num |-> 0],
      [skip |-> "none", months |-> 3, wild |-> FALSE, edge |-> "far", ratio_num |-> 1],
      [skip |-> "none", months |-> 3, wild |-> FALSE, edge |-> "far", ratio_num |-> 2],
      [skip |-> "none", months |-> 4, wild |-> FALSE, edge |-> "up", ratio_num |-> 2],
      [skip |-> "none", months |-> 3, wild |-> TRUE, edge |-> "down", ratio_num |-> 1] }

RankCalled == [state |-> "called", result |-> <<>>]

RankInit ==
    /\ k_kind \in {"weekly", "monthly"}
    /\ \E n \in 0 .. MaxCodes : k_codes = SubSeq(UniverseCodes, 1, n)
    /\ k_data \in [ { k_codes[i] : i \in 1 .. Len(k_codes) } ->
                      IF k_kind = "weekly" THEN RankWeeklyInputs ELSE RankMonthlyInputs ]
    /\ k_config \in RankConfigs
    /\ k_limit \in Limits
    /\ k_pos = 0 /\ k_items = <<>> /\ k_skipped = <<>>
    /\ k_cache = None
    /\ k_calls = 1
    /\ k_out = RankCalled

\* lines 2301-2302 / 2361-2362: no codes
RankEmpty ==
    /\ k_out.state = "called"
    /\ k_codes = <<>>
    /\ k_out' = [state |-> "returned",
                 result |-> [lists |-> [a \in Axes(k_kind) |-> <<>>],
                             count |-> 0, skipped |-> <<>>]]
    /\ UNCHANGED <<k_kind, k_codes, k_data, k_config, k_limit, k_pos, k_items, k_skipped,
                   k_cache, k_calls>>
    /\ UNCHANGED nonRankVars

\* lines 2303-2306 / 2363-2366: the key is in the cache
RankCached ==
    /\ k_out.state = "called"
    /\ k_codes # <<>>
    /\ k_cache # None
    /\ k_out' = [state |-> "returned", result |-> Val(k_cache)]
    /\ UNCHANGED <<k_kind, k_codes, k_data, k_config, k_limit, k_pos, k_items, k_skipped,
                   k_cache, k_calls>>
    /\ UNCHANGED nonRankVars

\* lines 2303-2316 / 2363-2375: the key is not in the cache; the lists start empty
RankStart ==
    /\ k_out.state = "called"
    /\ k_codes # <<>>
    /\ k_cache = None
    /\ k_pos' = 0
    /\ k_items' = [a \in Axes(k_kind) |-> <<>>]
    /\ k_skipped' = <<>>
    /\ k_out' = [state |-> "running", result |-> <<>>]
    /\ UNCHANGED <<k_kind, k_codes, k_data, k_config, k_limit, k_cache, k_calls>>
    /\ UNCHANGED nonRankVars

\* lines 2318-2327 / 2377-2384: the body of "for code in codes"
RankCandidate ==
    /\ k_out.state = "running"
    /\ k_pos < Len(k_codes)
    /\ LET code == k_codes[k_pos + 1]
           scored == ScoreCandidate(k_kind, k_data[code], k_config)
       IN  IF scored.skip # "none"
           THEN /\ k_skipped' = Append(k_skipped, [code |-> code, reason |-> scored.skip])
                /\ UNCHANGED k_items
           ELSE /\ k_items' = [a \in Axes(k_kind) |->
                                 Append(k_items[a], RankedItem(code, scored.items[a]))]
                /\ UNCHANGED k_skipped
    /\ k_pos' = k_pos + 1
    /\ UNCHANGED <<k_kind, k_codes, k_data, k_config, k_limit, k_cache, k_calls, k_out>>
    /\ UNCHANGED nonRankVars

\* lines 2329-2348 / 2386-2400: sort each list in place, cut it at limit, store the
\* result in the cache, return it
RankReturn ==
    /\ k_out.state = "running"
    /\ k_pos >= Len(k_codes)
    /\ LET sorted == [a \in Axes(k_kind) |-> SortByScoreDesc(k_items[a])]
           res == [lists |-> [a \in Axes(k_kind) |-> Take(sorted[a], k_limit)],
                   count |-> Len(k_codes), skipped |-> k_skipped]
       IN  /\ k_items' = sorted
           /\ k_cache' = Some(res)
           /\ k_out' = [state |-> "returned", result |-> res]
    /\ UNCHANGED <<k_kind, k_codes, k_data, k_config, k_limit, k_pos, k_skipped, k_calls>>
    /\ UNCHANGED nonRankVars

\* lines 3536-3543, 3559-3566: the endpoint is requested again with the same
\* arguments; the locals of the earlier call are gone, the cache is not
RankAgain ==
    /\ k_out.state = "returned"
    /\ k_calls < MaxCalls
    /\ k_calls' = k_calls + 1
    /\ k_pos' = 0 /\ k_items' = <<>> /\ k_skipped' = <<>>
    /\ k_out' = RankCalled
    /\ UNCHANGED <<k_kind, k_codes, k_data, k_config, k_limit, k_cache>>
    /\ UNCHANGED nonRankVars

RankNext == RankEmpty \/ RankCached \/ RankStart \/ RankCandidate \/ RankReturn \/ RankAgain
RankSpecInit ==
    CacheIdle /\ GrowIdle /\ DateIdle /\ BodyIdle /\ RepeatIdle /\ BoxIdle /\ StageIdle
    /\ StreakIdle /\ MaIdle /\ NormIdle /\ ScoreIdle /\ RankInit
RankSpec == RankSpecInit /\ [][RankNext]_vars

(***************************************************************************)
(*                  Properties of the ranking builders                     *)
(***************************************************************************)

\* The place of a code in the universe code list.
CodeOrder(code) == CHOOSE i \in 1 .. Len(k_codes) : k_codes[i] = code

\* What the scorer makes of a code of the universe.
ScoredAs(code) == ScoreCandidate(k_kind, k_data[code], k_config)

\* The codes the scorer does not skip.
ScoredCodes == { k_codes[i] : i \in { j \in 1 .. Len(k_codes) : ScoredAs(k_codes[j]).skip = "none" } }

\* Candidate c comes before candidate d in the ranking of an axis: higher
\* total_score, or the same total_score and earlier in the universe code list.
RanksBefore(axis, c, d) ==
    LET sc == ScoredAs(c).items[axis].total_score
        sd == ScoredAs(d).items[axis].total_score
    IN  sc > sd \/ (sc = sd /\ CodeOrder(c) < CodeOrder(d))

\* C18: on each axis of a returned ranking the candidates are in non-increasing
\* total_score order, candidates of equal total_score are in the order of the
\* universe code list, and the list is exactly the first limit entries of that
\* ordering of all the candidates the scorer did not skip.
C18_RankingSortedStableTruncated ==
    k_out.state = "returned" =>
        \A axis \in Axes(k_kind) :
            LET list == k_out.result.lists[axis]
                listed == { list[i].code : i \in 1 .. Len(list) }
            IN  /\ Len(list) = Min2(k_limit, Cardinality(ScoredCodes))
                /\ \A i \in 1 .. Len(list) :
                      /\ list[i].code \in ScoredCodes
                      /\ list[i] = RankedItem(list[i].code, ScoredAs(list[i].code).items[axis])
                /\ \A i, j \in 1 .. Len(list) :
                      i < j =>
                         /\ list[i].total_score >= list[j].total_score
                         /\ RanksBefore(axis, list[i].code, list[j].code)
                /\ \A c \in ScoredCodes \ listed :
                      \A i \in 1 .. Len(list) : RanksBefore(axis, list[i].code, c)

\* three scored candidates, the second and third tie above the first, limit 2: the
\* tied pair is returned in universe order and the first candidate is cut
C18_TieKeptInOrderAndCut ==
    /\ k_out.state = "returned" /\ k_kind = "weekly" /\ k_limit = 2
    /\ Cardinality(ScoredCodes) = 3
    /\ Len(k_out.result.lists.up) = 2
    /\ k_out.result.lists.up[1].code = k_codes[2]
    /\ k_out.result.lists.up[2].code = k_codes[3]
    /\ k_out.result.lists.up[1].total_score = k_out.result.lists.up[2].total_score
    /\ ScoredAs(k_codes[1]).items.up.total_score < k_out.result.lists.up[2].total_score

(***************************************************************************)
(*        One function called twice on the same arguments                  *)
(***************************************************************************)

\* The arguments of the function, as the caller holds them now.
Arguments ==
    CASE r_fn = "detect_boxes" -> <<rows, params>>
      [] r_fn = "compute_stage_score" -> <<daily, monthly>>
      [] r_fn = "scorer" -> <<c_kind, c_input, c_config>>

\* The current call has returned or raised.
Finished ==
    CASE r_fn = "detect_boxes" -> pc \in {"done", "raised"}
      [] r_fn = "compute_stage_score" -> result # NoResult
      [] r_fn = "scorer" -> c_out.state = "returned"

\* What the current call gave: the returned value, or that it raised.
Output ==
    CASE r_fn = "detect_boxes" -> <<pc, boxes>>
      [] r_fn = "compute_stage_score" -> <<result>>
      [] r_fn = "scorer" -> <<c_out>>

RepeatInit ==
    /\ \/ r_fn = "detect_boxes" /\ BoxInit /\ StageIdle /\ ScoreIdle
       \/ r_fn = "compute_stage_score" /\ BoxIdle /\ StageInit /\ ScoreIdle
       \/ r_fn = "scorer" /\ BoxIdle /\ StageIdle /\ ScoreInit
    /\ r_calls = 1
    /\ r_input = Arguments
    /\ r_first = None

\* The caller keeps what the first call returned and calls detect_boxes again with
\* the objects it passed before.  The names of the new call are unbound until the
\* call assigns them: they are left as they were, so that a call which reads one of
\* them before assigning it shows.
BoxAgain ==
    /\ r_fn = "detect_boxes" /\ r_calls = 1 /\ Finished
    /\ r_first' = Some(Output)
    /\ r_calls' = 2
    /\ pc' = "call"
    /\ examined' = [i \in 0 .. MaxRows |-> 0]
    /\ UNCHANGED <<r_fn, r_input>>
    /\ UNCHANGED <<rows, params, bars, index, start, end, upper, lower,
                   rescue_up, rescue_down, cursor, boxes>>
    /\ UNCHANGED <<stageVars, streakVars, maVars, normVars, scoreVars, rankVars, bodyVars, dateVars, growVars, cacheVars>>

\* The same for compute_stage_score.
StageAgain ==
    /\ r_fn = "compute_stage_score" /\ r_calls = 1 /\ Finished
    /\ r_first' = Some(Output)
    /\ r_calls' = 2
    /\ result' = NoResult
    /\ UNCHANGED <<r_fn, r_input>>
    /\ UNCHANGED <<daily, monthly, appended>>
    /\ UNCHANGED <<boxVars, streakVars, maVars, normVars, scoreVars, rankVars, bodyVars, dateVars, growVars, cacheVars>>

\* The same for _score_weekly_candidate and _score_monthly_candidate.
ScoreAgain ==
    /\ r_fn = "scorer" /\ r_calls = 1 /\ Finished
    /\ r_first' = Some(Output)
    /\ r_calls' = 2
    /\ c_out' = Called0
    /\ UNCHANGED <<r_fn, r_input>>
    /\ UNCHANGED <<c_kind, c_input, c_config, c_pos, c_score, c_reasons, c_badges>>
    /\ UNCHANGED <<boxVars, stageVars, streakVars, maVars, normVars, rankVars, bodyVars, dateVars, growVars, cacheVars>>

RepeatNext == Next \/ ComputeStageScore \/ ScoreNext \/ BoxAgain \/ StageAgain \/ ScoreAgain
RepeatSpecInit ==
    CacheIdle /\ GrowIdle /\ DateIdle /\ BodyIdle /\ StreakIdle /\ MaIdle /\ NormIdle
    /\ RankIdle /\ RepeatInit
RepeatSpec == RepeatSpecInit /\ [][RepeatNext]_vars

MaxMonthly == 4

\* lines 1876-1880: the thresholds of the rank config, the defaults when absent.
\* max_range_pct = range_num / range_den, wild_wick_pct = wick_num / wick_den.
DefaultThresholds ==
    [min_months |-> 3, max_months |-> 14, range_num |-> 20, range_den |-> 100,
     wick_num |-> 1, wick_den |-> 10]

ThresholdSets ==
    { DefaultThresholds,
      [DefaultThresholds EXCEPT !.min_months = 2, !.max_months = 3, !.range_num = 5],
      [DefaultThresholds EXCEPT !.min_months = 1, !.max_months = 2] }

\* Monthly candles: flat at 100, a rise inside the range, a jump out of it, a flat
\* body with a long upper wick.
MonthShapes ==
    { [open |-> 100, high |-> 100, low |-> 100, close |-> 100],
      [open |-> 100, high |-> 105, low |-> 100, close |-> 105],
      [open |-> 130, high |-> 130, low |-> 130, close |-> 130],
      [open |-> 100, high |-> 125, low |-> 100, close |-> 100] }

\* The monthly series: n candles with months 1 .. n, in ascending or descending
\* order of month, one of them possibly without a close.
MonthlySeries ==
    { [k \in 1 .. n |->
          [MonthRow(IF rev THEN n + 1 - k ELSE k, shapes[k].open, shapes[k].high,
                    shapes[k].low, shapes[k].close)
             EXCEPT !.missing = IF k = gap THEN {"close"} ELSE {}]] :
        n \in 0 .. MaxMonthly, shapes \in [1 .. MaxMonthly -> MonthShapes],
        rev \in BOOLEAN, gap \in {0, 2} }

\* lines 1884-1887: a row is kept when it has five fields and none is None
MonthValid(row) == row.missing = {}

\* bars[-length:]
LastBars(bs, length) ==
    IF length = 0 THEN bs
    ELSE IF length < 0 THEN SubSeq(bs, Min2(0 - length, Len(bs)) + 1, Len(bs))
    ELSE SubSeq(bs, Max2(Len(bs) - length, 0) + 1, Len(bs))

\* lines 1909-1914: the bounds of a window and its range test
WindowUpper(window) == SeqMax([k \in 1 .. Len(window) |-> BodyHigh(window[k])])
WindowLower(window) == SeqMin([k \in 1 .. Len(window) |-> BodyLow(window[k])])
WindowFits(window, th) == ~RangeExceeded(WindowUpper(window), WindowLower(window), th)

\* lines 1917-1920
WildWick(bar, up, lo, th) ==
    \/ bar.high * th.wick_den > up * (th.wick_den + th.wick_num)
    \/ bar.low * th.wick_den < lo * (th.wick_den - th.wick_num)

\* lines 1921-1930
BodyBox(window, length, th) ==
    LET up == WindowUpper(window)
        lo == WindowLower(window)
    IN  [start |-> window[1].time, end |-> window[Len(window)].time,
         upper |-> up, lower |-> lo, months |-> length,
         range_pct |-> Frac(up - lo, Abs(lo)),
         wild |-> \E k \in 1 .. Len(window) : WildWick(window[k], up, lo, th),
         last_close |-> window[Len(window)].close]

\* A search that starts from the shortest window.
ShortestFirst(th, n) == th.min_months

\* line 1906 and the first value of the range of line 1908
LongestFirst(th, n) == Min2(th.max_months, n)

BodyInit ==
    /\ b_rows \in MonthlySeries
    /\ b_th \in ThresholdSets
    /\ b_bars = <<>>
    /\ b_length = 0
    /\ b_out = [state |-> "called", box |-> None]

\* lines 1876-1906: read the thresholds, keep the valid rows, return None when they
\* are fewer than min_months, else sort them by time and start with the longest window
BodyStart ==
    /\ b_out.state = "called"
    /\ LET kept == SelectSeq(b_rows, MonthValid)
       IN  IF Len(kept) < b_th.min_months
           THEN /\ b_bars' = kept
                /\ b_out' = [state |-> "returned", box |-> None]
                /\ UNCHANGED b_length
           ELSE /\ b_bars' = SortByTime(kept)
                /\ b_length' = LongestFirst(b_th, Len(kept))
                /\ b_out' = [state |-> "loop", box |-> None]
    /\ UNCHANGED <<b_rows, b_th>>
    /\ UNCHANGED nonBodyVars

\* lines 1908-1915: the window is too wide, continue with the next shorter one
BodyContinue ==
    /\ b_out.state = "loop"
    /\ b_length >= b_th.min_months
    /\ ~WindowFits(LastBars(b_bars, b_length), b_th)
    /\ b_length' = b_length - 1
    /\ UNCHANGED <<b_rows, b_th, b_bars, b_out>>
    /\ UNCHANGED nonBodyVars

\* lines 1908-1931: the window passes the range test and is returned
BodyReturn ==
    /\ b_out.state = "loop"
    /\ b_length >= b_th.min_months
    /\ WindowFits(LastBars(b_bars, b_length), b_th)
    /\ b_out' = [state |-> "returned",
                 box |-> Some(BodyBox(LastBars(b_bars, b_length), b_length, b_th))]
    /\ UNCHANGED <<b_rows, b_th, b_bars, b_length>>
    /\ UNCHANGED nonBodyVars

\* lines 1908, 1933: the range is exhausted
BodyNone ==
    /\ b_out.state = "loop"
    /\ b_length < b_th.min_months
    /\ b_out' = [state |-> "returned", box |-> None]
    /\ UNCHANGED <<b_rows, b_th, b_bars, b_length>>
    /\ UNCHANGED nonBodyVars

BodyNext == BodyStart \/ BodyContinue \/ BodyReturn \/ BodyNone
BodySpecInit ==
    CacheIdle /\ GrowIdle /\ DateIdle /\ RepeatIdle /\ RankIdle /\ ScoreIdle /\ BoxIdle
    /\ StageIdle /\ StreakIdle /\ MaIdle /\ NormIdle /\ BodyInit
BodySpec == BodySpecInit /\ [][BodyNext]_vars

(***************************************************************************)
(*                    Properties of _detect_body_box                       *)
(***************************************************************************)

\* The valid rows of the series in order of month.
ValidMonths == SortByTime(SelectSeq(b_rows, MonthValid))

\* The window lengths L with min_months <= L <= min(max_months, number of valid
\* bars) whose L most recent valid bars have a body range within max_range_pct.
FittingLengths ==
    { L \in b_th.min_months .. Min2(b_th.max_months, Len(ValidMonths)) :
        LET w == SubSeq(ValidMonths, Len(ValidMonths) - L + 1, Len(ValidMonths))
            hi == SeqMax([k \in 1 .. L |-> Max2(w[k].open, w[k].close)])
            lo == SeqMin([k \in 1 .. L |-> Min2(w[k].open, w[k].close)])
        IN  (hi - lo) * b_th.range_den <= b_th.range_num * Abs(lo) }

\* C26: _detect_body_box returns the window of the L most recent valid monthly bars
\* with the largest fitting L, and none when no L fits; a detected box ends at the
\* latest valid bar, with the thresholds of ingest_txt.py it is the box of that
\* module, and when all rows are valid the box is active in compute_stage_score.
C26_LongestRecentWindow ==
    b_out.state = "returned" =>
        IF FittingLengths = {} THEN b_out.box = None
        ELSE LET L == CHOOSE x \in FittingLengths : \A y \in FittingLengths : y <= x
                 n == Len(ValidMonths)
                 box == Val(b_out.box)
             IN  /\ b_out.box # None
                 /\ box.months = L
                 /\ box.start = ValidMonths[n - L + 1].time
                 /\ box.end = ValidMonths[n].time
                 /\ \A k \in (n - L + 1) .. n :
                       /\ Max2(ValidMonths[k].open, ValidMonths[k].close) <= box.upper
                       /\ Min2(ValidMonths[k].open, ValidMonths[k].close) >= box.lower
                 /\ \E k \in (n - L + 1) .. n :
                       Max2(ValidMonths[k].open, ValidMonths[k].close) = box.upper
                 /\ \E k \in (n - L + 1) .. n :
                       Min2(ValidMonths[k].open, ValidMonths[k].close) = box.lower
                 /\ b_th = DefaultThresholds =>
                       /\ DetectBodyBox(b_rows) # None
                       /\ \A f \in DOMAIN Val(DetectBodyBox(b_rows)) :
                             Val(DetectBodyBox(b_rows))[f] = box[f]
                 /\ Len(ValidMonths) = Len(b_rows) =>
                       BoxActive(b_out.box, SortByTime(b_rows))

\* four valid months given latest first, the oldest out of range: the box is the
\* three most recent ones
C26_ThreeOfFourMonths ==
    /\ b_out.state = "returned" /\ b_out.box # None
    /\ Len(b_rows) = 4 /\ Len(ValidMonths) = 4
    /\ b_rows[1].time = 4
    /\ b_th = DefaultThresholds
    /\ Val(b_out.box).months = 3
    /\ Val(b_out.box).start = 2 /\ Val(b_out.box).end = 4

(***************************************************************************)
(*   _detect_body_box next to detect_boxes run on the candle bodies        *)
(***************************************************************************)

\* The body of a monthly candle as a bar of detect_boxes: high and low are the
\* body high and the body low.
BodyRow(row) ==
    [Row(row.time, [open |-> row.open, high |-> BodyHigh(row), low |-> BodyLow(row),
                    close |-> row.close])
       EXCEPT !.missing = row.missing]

\* detect_boxes with min_bars=3, max_bars=14, max_range_pct=0.2
BodyDetectorParams ==
    [DefaultParams EXCEPT !.min_bars = 3, !.max_bars = 14, !.range_num = 20]

\* Both procedures are given the same monthly series.
BothInit ==
    /\ BodyInit
    /\ b_th = DefaultThresholds
    /\ rows = [k \in 1 .. Len(b_rows) |-> BodyRow(b_rows[k])]
    /\ params = BodyDetectorParams
    /\ bars = <<>>
    /\ pc = "call"
    /\ index = 0 /\ start = 0 /\ end = 0
    /\ upper = 0 /\ lower = 0
    /\ rescue_up = 0 /\ rescue_down = 0
    /\ cursor = 0
    /\ boxes = <<>>
    /\ examined = [i \in 0 .. MaxRows |-> 0]

BothNext == Next \/ BodyNext
BothSpecInit ==
    CacheIdle /\ GrowIdle /\ DateIdle /\ RepeatIdle /\ RankIdle /\ ScoreIdle
    /\ StageIdle /\ StreakIdle /\ MaIdle /\ NormIdle /\ BothInit
BothSpec == BothSpecInit /\ [][BothNext]_vars

\* The boxes of detect_boxes whose span holds the month t.
BoxesAt(t) == { k \in BoxIds : boxes[k].startTime <= t /\ t <= boxes[k].endTime }

\* The active box of detect_boxes: the box whose span holds the latest month, else
\* the box whose span holds the month before it.
ActiveBoxes ==
    IF bars = <<>> THEN {}
    ELSE IF BoxesAt(bars[Len(bars)].time) # {} THEN BoxesAt(bars[Len(bars)].time)
    ELSE IF Len(bars) >= 2 THEN BoxesAt(bars[Len(bars) - 1].time)
    ELSE {}

\* C22: for every monthly series _detect_body_box and detect_boxes run on the candle
\* bodies with min_bars=3, max_bars=14, max_range_pct=0.2 report the same active box
\* span and bounds, or both report none.
C22_BodyBoxIsSlidingBox ==
    (pc = "done" /\ b_out.state = "returned") =>
        IF b_out.box = None THEN ActiveBoxes = {}
        ELSE \E k \in ActiveBoxes :
                /\ boxes[k].startTime = Val(b_out.box).start
                /\ boxes[k].endTime = Val(b_out.box).end
                /\ boxes[k].upper = Val(b_out.box).upper
                /\ boxes[k].lower = Val(b_out.box).lower

(***************************************************************************)
(* main.py: _normalize_daily_rows, _normalize_monthly_rows                 *)
(*                                                                         *)
(* A fetched row is a tuple whose first element is the date (a month for   *)
(* monthly rows).  The date comes from an INTEGER column: it is None, an   *)
(* integer, or a text of digits, [text, n]; int() makes n of both.  The    *)
(* other elements of a row are its prices, here one number repeated.       *)
(***************************************************************************)
MaxFetched == 3

\* len(row) < 6 (daily) and len(row) < 5 (monthly)
MinRowLen(kind) == IF kind = "daily" THEN 6 ELSE 5

\* int(date_value)
DateInt(date_value) == date_value.n

FetchedRow(date_value, price, length) ==
    <<date_value>> \o [i \in 1 .. length - 1 |-> price]

DateValues ==
    {[text |-> FALSE, n |-> 1], [text |-> FALSE, n |-> 2], [text |-> TRUE, n |-> 2],
     [text |-> FALSE, n |-> 3]}

FetchedRows(kind) ==
    {FetchedRow(dv, 10, MinRowLen(kind)) : dv \in DateValues}
    \cup {FetchedRow([text |-> FALSE, n |-> 2], 11, MinRowLen(kind)),
          FetchedRow(None, 10, MinRowLen(kind)),
          FetchedRow([text |-> FALSE, n |-> 1], 10, MinRowLen(kind) - 1)}

FetchedLists(kind) ==
    UNION {[1 .. n -> FetchedRows(kind)] : n \in 0 .. MaxFetched}

AsOfValues == {None, Some(1), Some(2)}

\* by_date[date_int] = row with the overwrite left out: the first row of a date stays
PutIfAbsent(by, key, row) ==
    [k \in DOMAIN by \cup {key} |-> IF k \in DOMAIN by THEN by[k] ELSE row]

\* by_date[date_int] = row
Put(by, key, row) ==
    [k \in DOMAIN by \cup {key} |-> IF k = key THEN row ELSE by[k]]

\* sorted(by_date.keys())
RECURSIVE SortedKeys(_)
SortedKeys(keys) ==
    IF keys = {} THEN <<>>
    ELSE LET least == CHOOSE k \in keys : \A other \in keys : k <= other
         IN  <<least>> \o SortedKeys(keys \ {least})

\* The three continue statements of the loop body.
Skipped(kind, row, as_of) ==
    IF Len(row) < MinRowLen(kind) THEN TRUE
    ELSE IF row[1] = None THEN TRUE
    ELSE IF as_of = None THEN FALSE
    ELSE DateInt(row[1]) > Val(as_of)

DateInit ==
    /\ d_kind \in {"daily", "monthly"}
    /\ d_rows \in FetchedLists(d_kind)
    /\ d_as_of \in AsOfValues
    /\ d_pos = 0
    /\ d_by = <<>>
    /\ d_out = [state |-> "running", rows |-> <<>>]

\* One pass of the for loop that ends in a continue.
NormalizeSkip ==
    /\ d_out.state = "running"
    /\ d_pos < Len(d_rows)
    /\ Skipped(d_kind, d_rows[d_pos + 1], d_as_of)
    /\ d_pos' = d_pos + 1
    /\ UNCHANGED <<d_kind, d_rows, d_as_of, d_by, d_out>>
    /\ UNCHANGED nonDateVars

\* One pass of the for loop that stores the row.
NormalizeStore ==
    /\ d_out.state = "running"
    /\ d_pos < Len(d_rows)
    /\ ~Skipped(d_kind, d_rows[d_pos + 1], d_as_of)
    /\ d_by' = Put(d_by, DateInt(d_rows[d_pos + 1][1]), d_rows[d_pos + 1])
    /\ d_pos' = d_pos + 1
    /\ UNCHANGED <<d_kind, d_rows, d_as_of, d_out>>
    /\ UNCHANGED nonDateVars

\* return [by_date[key] for key in sorted(by_date.keys())]
NormalizeReturn ==
    /\ d_out.state = "running"
    /\ d_pos = Len(d_rows)
    /\ LET keys == SortedKeys(DOMAIN d_by)
       IN  d_out' = [state |-> "returned",
                     rows |-> [i \in 1 .. Len(keys) |-> d_by[keys[i]]]]
    /\ UNCHANGED <<d_kind, d_rows, d_as_of, d_pos, d_by>>
    /\ UNCHANGED nonDateVars

DateNext == NormalizeSkip \/ NormalizeStore \/ NormalizeReturn

DateSpecInit ==
    CacheIdle /\ GrowIdle /\ BodyIdle /\ RepeatIdle /\ RankIdle /\ ScoreIdle /\ BoxIdle
    /\ StageIdle /\ StreakIdle /\ MaIdle /\ NormIdle /\ DateInit
DateSpec == DateSpecInit /\ [][DateNext]_vars

\* The positions of the input rows that are long enough, dated, and not after as_of.
Eligible ==
    {i \in 1 .. Len(d_rows) : ~Skipped(d_kind, d_rows[i], d_as_of)}

\* C25: the rows a normalizer returns have strictly increasing (so unique) date
\* keys, none is dated after as_of when as_of is given, none is too short or has a
\* null date, and for every date of an eligible input row the output holds exactly
\* the last eligible input row of that date.
C25_SortedUniqueNoLookAheadLastWins ==
    d_out.state = "returned" =>
        LET out == d_out.rows
        IN  /\ \A i \in 1 .. Len(out) :
                /\ Len(out[i]) >= MinRowLen(d_kind)
                /\ out[i][1] # None
                /\ d_as_of # None => DateInt(out[i][1]) <= Val(d_as_of)
            /\ \A i, j \in 1 .. Len(out) :
                i < j => DateInt(out[i][1]) < DateInt(out[j][1])
            /\ \A i \in Eligible :
                LET key  == DateInt(d_rows[i][1])
                    kept == CHOOSE j \in Eligible :
                                /\ DateInt(d_rows[j][1]) = key
                                /\ \A l \in Eligible :
                                       DateInt(d_rows[l][1]) = key => l <= j
                IN  \E p \in 1 .. Len(out) : out[p] = d_rows[kept]
            /\ \A p \in 1 .. Len(out) :
                \E i \in Eligible : out[p] = d_rows[i]

\* Two different rows of one date, the later one kept, and a row after as_of dropped.
C25_DuplicateDateAndLookAhead ==
    /\ d_out.state = "returned"
    /\ d_as_of # None
    /\ \E i, j \in Eligible :
        /\ i < j
        /\ DateInt(d_rows[i][1]) = DateInt(d_rows[j][1])
        /\ d_rows[i] # d_rows[j]
        /\ \E p \in 1 .. Len(d_out.rows) : d_out.rows[p] = d_rows[j]
    /\ \E i \in 1 .. Len(d_rows) :
        /\ Len(d_rows[i]) >= MinRowLen(d_kind)
        /\ d_rows[i][1] # None
        /\ DateInt(d_rows[i][1]) > Val(d_as_of)

(***************************************************************************)
(* main.py: _build_box_metrics on a monthly series that grows by one bar   *)
(* at a time; box_detector.py: detect_boxes run again after every append.  *)
(***************************************************************************)

\* The series grows up to one bar more than the detect_boxes inputs above.
MaxGrown == MaxRows + 1

\* Bars appended to the series: flat, a wick above with the close inside, a jump
\* up and a drop.
GrowShapes ==
    { [open |-> 100, high |-> 100, low |-> 100, close |-> 100],
      [open |-> 100, high |-> 118, low |-> 100, close |-> 100],
      [open |-> 105, high |-> 120, low |-> 105, close |-> 120],
      [open |-> 100, high |-> 100, low |->  80, close |->  80] }

\* detect_boxes parameters of the growing runs.
GrowParams ==
    { DefaultParams,
      [DefaultParams EXCEPT !.min_bars = 2, !.max_bars = 3],
      [DefaultParams EXCEPT !.min_bars = 1, !.rescue_bars = 1, !.range_num = 5] }

\* main.py lines 1500-1512: the rows with five fields, an open and a close.
MetricBars(monthly_rows) ==
    SelectSeq(monthly_rows,
              LAMBDA row : row.len >= 5 /\ row.missing \cap {"open", "close"} = {})

\* main.py line 1517: max(boxes, key=endIndex), the first of the maximal ones.
LatestBox(bxs) ==
    bxs[CHOOSE i \in 1 .. Len(bxs) :
            /\ \A j \in 1 .. Len(bxs) : bxs[j].endIndex <= bxs[i].endIndex
            /\ \A j \in 1 .. i - 1 : bxs[j].endIndex < bxs[i].endIndex]

\* A status that still reports the breakout two bars after the box.
BoxStateLate(monthly_rows, bxs) ==
    IF monthly_rows = <<>> \/ bxs = <<>> \/ MetricBars(monthly_rows) = <<>> THEN "NONE"
    ELSE LET latest_box   == LatestBox(bxs)
             latest_index == Len(MetricBars(monthly_rows)) - 1
         IN  IF latest_box.endIndex - latest_box.startIndex + 1 < 3 THEN "NONE"
             ELSE IF latest_box.startIndex > latest_index THEN "NONE"
             ELSE IF latest_box.endIndex = latest_index THEN "IN_BOX"
             ELSE IF latest_box.endIndex >= latest_index - 2 THEN "JUST_BREAKOUT"
             ELSE "NONE"

\* main.py lines 1494-1547: box_state of _build_box_metrics, given what detect_boxes
\* returned for monthly_rows.
BoxState(monthly_rows, bxs) ==
    IF monthly_rows = <<>> \/ bxs = <<>> \/ MetricBars(monthly_rows) = <<>> THEN "NONE"
    ELSE LET latest_box   == LatestBox(bxs)
             latest_index == Len(MetricBars(monthly_rows)) - 1
         IN  IF latest_box.endIndex - latest_box.startIndex + 1 < 3 THEN "NONE"
             \* bars[start_index : end_index + 1] is empty: body_low is None
             ELSE IF latest_box.startIndex > latest_index THEN "NONE"
             ELSE IF latest_box.endIndex = latest_index THEN "IN_BOX"
             ELSE IF latest_box.endIndex = latest_index - 1 THEN "JUST_BREAKOUT"
             ELSE "NONE"

\* The first call is made on an empty series.
GrowInit ==
    /\ g_mode = "growing"
    /\ g_prev = None
    /\ rows = <<>>
    /\ bars = <<>>
    /\ pc = "call"
    /\ index = 0 /\ start = 0 /\ end = 0
    /\ upper = 0 /\ lower = 0
    /\ rescue_up = 0 /\ rescue_down = 0
    /\ cursor = 0
    /\ boxes = <<>>
    /\ examined = [i \in 0 .. MaxRows |-> 0]

\* A bar later than every bar of the series arrives and the caller runs
\* detect_boxes on the longer series; what the shorter series gave is kept.
AppendBar ==
    /\ g_mode = "growing"
    /\ pc = "done"
    /\ Len(rows) < MaxGrown
    /\ \E shape \in GrowShapes : rows' = Append(rows, Row(Len(rows) + 1, shape))
    /\ g_prev' = Some([n |-> Len(bars), boxes |-> boxes, state |-> BoxState(rows, boxes)])
    /\ pc' = "call"
    /\ examined' = [i \in 0 .. MaxRows |-> 0]
    /\ UNCHANGED <<params, bars, index, start, end, upper, lower,
                   rescue_up, rescue_down, cursor, boxes, g_mode>>
    /\ UNCHANGED <<stageVars, streakVars, maVars, normVars, scoreVars, rankVars,
                   repeatVars, bodyVars, dateVars, cacheVars>>

GrowNext == Next \/ AppendBar

OthersIdleWhileGrowing ==
    CacheIdle /\ DateIdle /\ BodyIdle /\ RepeatIdle /\ RankIdle /\ ScoreIdle
    /\ StageIdle /\ StreakIdle /\ MaIdle /\ NormIdle

\* detect_boxes with any of the parameter sets.
GrowSpecInit ==
    OthersIdleWhileGrowing /\ GrowInit /\ params \in GrowParams
GrowSpec == GrowSpecInit /\ [][GrowNext]_vars

\* _build_box_metrics: detect_boxes with its default parameters.
MetricsSpecInit ==
    OthersIdleWhileGrowing /\ GrowInit /\ params = DefaultParams
MetricsSpec == MetricsSpecInit /\ [][GrowNext]_vars

\* The run on the longer series has returned and the shorter run is known.
BothRunsKnown == g_mode = "growing" /\ pc = "done" /\ g_prev # None

SameOrFound(before, after) ==
    \/ after = before
    \/ before = NoBreakout /\ after \in {"up", "down"}

\* C28: after a later bar is appended to n bars, every box of the shorter run that
\* ended before the last bar is in the longer run with the same startIndex,
\* endIndex, lower and upper and a breakout that is the same or went from None to
\* up / down; a box that ended at the last bar keeps its startIndex; a box that is
\* new in the longer run starts after every box of the shorter run.
C28_StableUnderAppend ==
    BothRunsKnown =>
        LET old == Val(g_prev).boxes
            n   == Val(g_prev).n
        IN  /\ \A i \in 1 .. Len(old) :
                IF old[i].endIndex < n - 1
                THEN \E j \in 1 .. Len(boxes) :
                        /\ boxes[j].startIndex = old[i].startIndex
                        /\ boxes[j].endIndex = old[i].endIndex
                        /\ boxes[j].lower = old[i].lower
                        /\ boxes[j].upper = old[i].upper
                        /\ SameOrFound(old[i].breakout, boxes[j].breakout)
                ELSE \E j \in 1 .. Len(boxes) :
                        boxes[j].startIndex = old[i].startIndex
            /\ \A j \in 1 .. Len(boxes) :
                (\A i \in 1 .. Len(old) : old[i].startIndex # boxes[j].startIndex)
                    => \A i \in 1 .. Len(old) : boxes[j].startIndex > old[i].endIndex

\* A box that ended before the last bar of the shorter series, without a breakout,
\* gets its breakout from the appended bar.
C28_BreakoutFoundByAppendedBar ==
    /\ BothRunsKnown
    /\ \E i \in 1 .. Len(Val(g_prev).boxes) : \E j \in 1 .. Len(boxes) :
        /\ Val(g_prev).boxes[i].endIndex < Val(g_prev).n - 1
        /\ boxes[j].startIndex = Val(g_prev).boxes[i].startIndex
        /\ Val(g_prev).boxes[i].breakout = NoBreakout
        /\ boxes[j].breakout # NoBreakout

AllowedStep(before, after) ==
    \/ before = "NONE" /\ after \in {"NONE", "IN_BOX"}
    \/ before = "IN_BOX" /\ after \in {"IN_BOX", "JUST_BREAKOUT"}
    \/ before = "JUST_BREAKOUT" /\ after = "NONE"

\* C21: as monthly bars are appended one at a time and _build_box_metrics is run
\* after each, the box status moves only NONE -> NONE, NONE -> IN_BOX,
\* IN_BOX -> IN_BOX, IN_BOX -> JUST_BREAKOUT and JUST_BREAKOUT -> NONE.
C21_StatusCycle ==
    BothRunsKnown => AllowedStep(Val(g_prev).state, BoxState(rows, boxes))

\* The status has just left JUST_BREAKOUT: with the run before that it went
\* IN_BOX, JUST_BREAKOUT, NONE.
C21_BreakoutLastedOneBar ==
    /\ BothRunsKnown
    /\ Val(g_prev).state = "JUST_BREAKOUT"
    /\ BoxState(rows, boxes) = "NONE"

(***************************************************************************)
(* main.py: _rank_cache, _load_rank_config, _ensure_rank_cache_state,      *)
(* _build_weekly_ranking, _build_monthly_ranking served by worker threads  *)
(* while the database file and the rank config file are replaced.          *)
(*                                                                         *)
(* A file is [mtime, version]: version numbers its content.  A ranking     *)
(* result is [db, config], the versions it was computed from.  All         *)
(* requests name the same as_of, limit and universe, so each kind has one  *)
(* cache key, and the universe is not empty.  A step of a worker is one    *)
(* of the calls the builder makes; the threads interleave between steps.   *)
(***************************************************************************)
Workers == {"w1", "w2"}

\* Bounds: replacements of each file, and requests served by each worker.
MaxReplacements == 1
MaxRequests == 2

\* A worker between requests.
Resting(calls) ==
    [pc |-> "idle", kind |-> "none", config |-> None, data |-> None,
     seen |-> None, result |-> None, cached |-> FALSE, calls |-> calls]

CacheInit ==
    /\ db_file = [mtime |-> 1, version |-> 1]
    /\ config_file = [mtime |-> 1, version |-> 1]
    \* line 132
    /\ rank_config_cache = [mtime |-> None, config |-> None]
    \* line 131
    /\ rank_cache = [mtime |-> None, config_mtime |-> None,
                     weekly |-> None, monthly |-> None]
    /\ workers = [w \in Workers |-> Resting(0)]

\* An ingest replaces the database file: new content, new mtime.
ReplaceDatabase ==
    /\ workers # <<>>
    /\ db_file.version <= MaxReplacements
    /\ db_file' = [mtime |-> db_file.mtime + 1, version |-> db_file.version + 1]
    /\ UNCHANGED <<config_file, rank_config_cache, rank_cache, workers>>
    /\ UNCHANGED nonCacheVars

\* The rank config file is edited: new content, new mtime.
ReplaceConfig ==
    /\ workers # <<>>
    /\ config_file.version <= MaxReplacements
    /\ config_file' = [mtime |-> config_file.mtime + 1,
                       version |-> config_file.version + 1]
    /\ UNCHANGED <<db_file, rank_cache, rank_config_cache, workers>>
    /\ UNCHANGED nonCacheVars

\* lines 1577-1592: _load_rank_config, the cache after the call
ConfigCacheAfterLoad ==
    IF rank_config_cache.mtime = Some(config_file.mtime)
       /\ rank_config_cache.config # None
    THEN rank_config_cache
    ELSE [mtime |-> Some(config_file.mtime), config |-> Some(config_file.version)]

\* lines 2292-2293 of _build_weekly_ranking (2352-2353 of the monthly builder):
\* the request arrives and the builder loads the rank config.
LoadRankConfig(w) ==
    /\ workers[w].pc = "idle"
    /\ workers[w].calls < MaxRequests
    /\ \E kind \in {"weekly", "monthly"} :
        workers' = [workers EXCEPT ![w] =
            [@ EXCEPT !.pc = "ensure", !.kind = kind,
                      !.config = ConfigCacheAfterLoad.config,
                      !.data = None, !.result = None, !.cached = FALSE,
                      !.seen = Some([db |-> db_file.version,
                                     config |-> config_file.version]),
                      !.calls = @ + 1]]
    /\ rank_config_cache' = ConfigCacheAfterLoad
    /\ UNCHANGED <<db_file, config_file, rank_cache>>
    /\ UNCHANGED nonCacheVars

\* lines 2280-2287: _ensure_rank_cache_state, the cache after the call
EnsuredCache ==
    IF rank_cache.mtime # Some(db_file.mtime)
       \/ rank_cache.config_mtime # rank_config_cache.mtime
    THEN [mtime |-> Some(db_file.mtime), config_mtime |-> rank_config_cache.mtime,
          weekly |-> None, monthly |-> None]
    ELSE rank_cache

\* line 2294: _ensure_rank_cache_state()
EnsureRankCacheState(w) ==
    /\ workers[w].pc = "ensure"
    /\ rank_cache' = EnsuredCache
    /\ workers' = [workers EXCEPT ![w].pc = "lookup"]
    /\ UNCHANGED <<db_file, config_file, rank_config_cache>>
    /\ UNCHANGED nonCacheVars

\* lines 2303-2306: the key is in the cache, the builder returns what it holds.
ServeCached(w) ==
    /\ workers[w].pc = "lookup"
    /\ rank_cache[workers[w].kind] # None
    /\ workers' = [workers EXCEPT ![w] =
            [@ EXCEPT !.pc = "returned", !.result = rank_cache[workers[w].kind],
                      !.cached = TRUE]]
    /\ UNCHANGED <<db_file, config_file, rank_config_cache, rank_cache>>
    /\ UNCHANGED nonCacheVars

\* lines 2303-2312: the key is not in the cache, the builder reads the rows.
FetchRows(w) ==
    /\ workers[w].pc = "lookup"
    /\ rank_cache[workers[w].kind] = None
    /\ workers' = [workers EXCEPT ![w] =
            [@ EXCEPT !.pc = "score", !.data = Some(db_file.version)]]
    /\ UNCHANGED <<db_file, config_file, rank_config_cache, rank_cache>>
    /\ UNCHANGED nonCacheVars

\* lines 2314-2348: score, sort, build the result, store it in the cache, return it.
StoreResult(w) ==
    /\ workers[w].pc = "score"
    /\ LET made == Some([db |-> Val(workers[w].data),
                         config |-> Val(workers[w].config)])
       IN  /\ rank_cache' = [rank_cache EXCEPT ![workers[w].kind] = made]
           /\ workers' = [workers EXCEPT ![w] =
                    [@ EXCEPT !.pc = "returned", !.result = made]]
    /\ UNCHANGED <<db_file, config_file, rank_config_cache>>
    /\ UNCHANGED nonCacheVars

\* The response is sent; the worker is free for the next request.
Respond(w) ==
    /\ workers[w].pc = "returned"
    /\ workers' = [workers EXCEPT ![w] = Resting(workers[w].calls)]
    /\ UNCHANGED <<db_file, config_file, rank_config_cache, rank_cache>>
    /\ UNCHANGED nonCacheVars

LoadStep     == \E w \in DOMAIN workers : LoadRankConfig(w)
EnsureStep   == \E w \in DOMAIN workers : EnsureRankCacheState(w)
ServeStep    == \E w \in DOMAIN workers : ServeCached(w)
FetchStep    == \E w \in DOMAIN workers : FetchRows(w)
StoreStep    == \E w \in DOMAIN workers : StoreResult(w)
RespondStep  == \E w \in DOMAIN workers : Respond(w)

CacheNext ==
    \/ ReplaceDatabase
    \/ ReplaceConfig
    \/ LoadStep
    \/ EnsureStep
    \/ ServeStep
    \/ FetchStep
    \/ StoreStep
    \/ RespondStep

CacheSpecInit ==
    GrowIdle /\ DateIdle /\ BodyIdle /\ RepeatIdle /\ RankIdle /\ ScoreIdle /\ BoxIdle
    /\ StageIdle /\ StreakIdle /\ MaIdle /\ NormIdle /\ CacheInit
CacheSpec == CacheSpecInit /\ [][CacheNext]_vars

\* C30: a ranking call returns a result computed from the database and the rank
\* config as they were when the call began or later, never from an older state of
\* either file, whether the result is computed by the call or served from
\* _rank_cache, and whatever the other worker thread does meanwhile.
C30_NoResultFromOlderState ==
    \A w \in DOMAIN workers :
        workers[w].pc = "returned" =>
            /\ Val(workers[w].result).db >= Val(workers[w].seen).db
            /\ Val(workers[w].result).config >= Val(workers[w].seen).config

====
